---- MODULE Spec2Model ----
(***************************************************************************)
(* A model of the doboz single-block LZ codec (Go port): the dictionary /  *)
(* match finder, the compressor driver, the header and match codecs and    *)
(* the decompressor driver.                                                *)
(*                                                                         *)
(* Buffers are sequences of bytes; index i of a Go slice is element i+1 of *)
(* the sequence (see At).  A 32-bit word is kept as its four little-endian *)
(* bytes, because the guard bit 2^31 does not fit the model checker's      *)
(* integers.  An index outside a slice makes the Go runtime panic: every   *)
(* access is checked and a failed one ends the call with PANICKED.         *)
(***************************************************************************)
EXTENDS Integers, Sequences, FiniteSets, TLC

(***************************************************************************)
(* Constants of common.go and of the dictionary.                           *)
(***************************************************************************)
RESULT_OK == 0
RESULT_ERROR_BUFFER_TOO_SMALL == 1
RESULT_ERROR_CORRUPTED_DATA == 2
RESULT_ERROR_UNSUPPORTED_VERSION == 3
\* not a Result: the call did not return, the runtime panicked on an index
PANICKED == 4
\* no Result yet: the call has not returned
RUNNING == 5

VERSION == 0
WORD_SIZE == 4
MIN_MATCH_LENGTH == 3
MAX_MATCH_LENGTH == 255 + MIN_MATCH_LENGTH
MAX_MATCH_CANDIDATE_COUNT == 128
DICTIONARY_SIZE == 2097152
TAIL_LENGTH == 2 * WORD_SIZE
TRAILING_DUMMY_SIZE == WORD_SIZE
\* int is at least 32 bits wide; no length of the model comes near it
MaxInt == 2147483647
HASH_TABLE_SIZE == 1048576
CHILD_COUNT == DICTIONARY_SIZE * 2
INVALID_POSITION == -1
REBASE_THRESHOLD == ((MaxInt - DICTIONARY_SIZE + 1) \div DICTIONARY_SIZE) * DICTIONARY_SIZE

min(a, b) == IF a < b THEN a ELSE b
max(a, b) == IF a > b THEN a ELSE b

(***************************************************************************)
(* Bytes, slices and words.                                                *)
(***************************************************************************)
Byte == 0..255

\* source[i] of a Go slice
At(buffer, i) == buffer[i + 1]

\* make([]byte, n)
Zeros(n) == [i \in 1..n |-> 0]

\* the slice with bytes written at offset, offset+1, ... (the caller has checked the bounds)
WriteBytes(buffer, offset, bytes) ==
    SubSeq(buffer, 1, offset) \o bytes \o SubSeq(buffer, offset + Len(bytes) + 1, Len(buffer))

\* whether buffer[offset : offset+n] is inside the slice
InBounds(buffer, offset, n) == offset >= 0 /\ offset + n <= Len(buffer)

\* a sparse array: the entries written so far; fill is what the others hold
Get(array, fill, i) == IF i \in DOMAIN array THEN array[i] ELSE fill
Put(array, i, v) == IF i \in DOMAIN array THEN [array EXCEPT ![i] = v] ELSE (i :> v) @@ array
EmptyArray == [x \in {} |-> 0]

\* the little-endian bytes of the low 32 bits of v, 0 <= v < 2^31
WordOfInt(v) == <<v % 256, (v \div 256) % 256, (v \div 65536) % 256, (v \div 16777216) % 256>>

\* word >> k for 0 <= k <= 8
ShiftRight(word, k) ==
    [i \in 1..4 |->
        (word[i] \div (2 ^ k)) + (IF i < 4 THEN (word[i + 1] % (2 ^ k)) * (2 ^ (8 - k)) ELSE 0)]

\* word | (1 << bit) for 0 <= bit <= 31
SetBit(word, bit) ==
    [word EXCEPT ![(bit \div 8) + 1] =
        IF (@ \div (2 ^ (bit % 8))) % 2 = 1 THEN @ ELSE @ + 2 ^ (bit % 8)]

\* the number of bytes FastRead touches: sizes 3 and 4 both read a whole word
FastReadSpan(size) == IF size \in {3, 4} THEN 4 ELSE IF size \in {1, 2} THEN size ELSE 0

\* FastRead(source[sourceOffset:], size) as a word
FastRead(source, sourceOffset, size) ==
    CASE size \in {3, 4} -> <<At(source, sourceOffset), At(source, sourceOffset + 1),
                             At(source, sourceOffset + 2), At(source, sourceOffset + 3)>>
      [] size = 2 -> <<At(source, sourceOffset), At(source, sourceOffset + 1), 0, 0>>
      [] size = 1 -> <<At(source, sourceOffset), 0, 0, 0>>
      [] OTHER -> <<0, 0, 0, 0>>

\* the number of bytes the slice must hold at destinationOffset for FastWrite:
\* sizes 2, 3 and 4 all take destination[destinationOffset:destinationOffset+4]
FastWriteSpan(size) == IF size \in {2, 3, 4} THEN 4 ELSE IF size = 1 THEN 1 ELSE 0

\* the number of bytes FastWrite stores
FastWriteCount(size) == IF size \in {3, 4} THEN 4 ELSE IF size \in {1, 2} THEN size ELSE 0

FastWrite(destination, destinationOffset, word, size) ==
    WriteBytes(destination, destinationOffset, SubSeq(word, 1, FastWriteCount(size)))

(***************************************************************************)
(* FNV-1a over three bytes.  Only hash % HASH_TABLE_SIZE is ever used and  *)
(* xor with a byte and multiplication both act on the low 20 bits alone,   *)
(* so the hash is carried modulo HASH_TABLE_SIZE.                          *)
(***************************************************************************)
RECURSIVE XorBits(_, _, _)
XorBits(a, b, bits) ==
    IF bits = 0 THEN 0
    ELSE (((a % 2) + (b % 2)) % 2) + 2 * XorBits(a \div 2, b \div 2, bits - 1)

\* prime % HASH_TABLE_SIZE
hashPrime == 16777619 % HASH_TABLE_SIZE
\* 2166136261 % HASH_TABLE_SIZE
hashBasis == 826821

hashRound(result, byte) ==
    ((((result \div 256) * 256) + XorBits(result % 256, byte, 8)) * hashPrime) % HASH_TABLE_SIZE

hash(data, pos) ==
    hashRound(hashRound(hashRound(hashBasis, At(data, pos)), At(data, pos + 1)), At(data, pos + 2))

(***************************************************************************)
(* The dictionary (match finder).  hashTable and children are sparse: an   *)
(* entry of hashTable that is not in the map holds INVALID_POSITION (the   *)
(* value SetBuffer stores everywhere); an entry of children that was never *)
(* written holds childrenFill, the zero of make() until a rebase rewrites  *)
(* the whole array.                                                        *)
(***************************************************************************)
\* the zero Dictionary of a build with the given DICTIONARY_SIZE and REBASE_THRESHOLD
BuildDictionary(dictionarySize, rebaseThreshold) ==
    [buffer |-> <<>>, bufferBase |-> 0, matchableBufferLength |-> 0, absolutePosition |-> 0,
     hashTable |-> EmptyArray, children |-> EmptyArray, childrenFill |-> 0,
     dictionarySize |-> dictionarySize, rebaseThreshold |-> rebaseThreshold]

NewDictionary == BuildDictionary(DICTIONARY_SIZE, REBASE_THRESHOLD)

\* SetBuffer that leaves the hash table as the last buffer left it
SetBufferKeepsHashTable(d, buffer) ==
    [d EXCEPT !.buffer = buffer,
              !.absolutePosition = 0,
              !.matchableBufferLength =
                  IF Len(buffer) > TAIL_LENGTH + MIN_MATCH_LENGTH
                  THEN Len(buffer) - (TAIL_LENGTH + MIN_MATCH_LENGTH) ELSE 0,
              !.bufferBase = 0]

\* SetBuffer that keeps one position too many matchable
SetBufferShortTail(d, buffer) ==
    [d EXCEPT !.buffer = buffer,
              !.absolutePosition = 0,
              !.matchableBufferLength =
                  IF Len(buffer) > TAIL_LENGTH + MIN_MATCH_LENGTH
                  THEN Len(buffer) - (TAIL_LENGTH + MIN_MATCH_LENGTH) + 1 ELSE 0,
              !.bufferBase = 0,
              !.hashTable = EmptyArray]

SetBuffer(d, buffer) ==
    [d EXCEPT !.buffer = buffer,
              !.absolutePosition = 0,
              !.matchableBufferLength =
                  IF Len(buffer) > TAIL_LENGTH + MIN_MATCH_LENGTH
                  THEN Len(buffer) - (TAIL_LENGTH + MIN_MATCH_LENGTH) ELSE 0,
              !.bufferBase = 0,
              !.hashTable = EmptyArray]

Position(d) == d.absolutePosition

\* the rebase of an entry that moves it and never invalidates it
rebaseEntryMoved(entry, rebaseDelta) == entry - rebaseDelta

\* one entry of hashTable or children at a rebase
rebaseEntry(entry, rebaseDelta) ==
    IF entry >= rebaseDelta THEN entry - rebaseDelta ELSE INVALID_POSITION

\* computeRelativePosition with the dictionary size and the rebase threshold of the build
computeRelativePositionIn(d, dictionarySize, rebaseThreshold) ==
    LET position == d.absolutePosition - d.bufferBase
        rebaseDelta == rebaseThreshold - dictionarySize
    IN  IF position = rebaseThreshold
        THEN [dict |-> [d EXCEPT !.bufferBase = @ + rebaseDelta,
                                 !.hashTable = [h \in DOMAIN d.hashTable |->
                                                   rebaseEntry(d.hashTable[h], rebaseDelta)],
                                 !.children = [c \in DOMAIN d.children |->
                                                  rebaseEntry(d.children[c], rebaseDelta)],
                                 !.childrenFill = rebaseEntry(d.childrenFill, rebaseDelta)],
              position |-> position - rebaseDelta]
        ELSE [dict |-> d, position |-> position]

\* extendMatch without the limit of maxMatchLength: the comparison runs to the end of the buffer
extendMatchUncapped(buffer, position, matchPosition, matchLength, maxMatchLength) ==
    LET last == Len(buffer) - 1 - position
        differ == {k \in matchLength..(last - 1) :
                      At(buffer, position + k) # At(buffer, matchPosition + k)}
    IN  IF matchLength >= last THEN matchLength
        ELSE IF differ = {} THEN last
        ELSE CHOOSE k \in differ : \A j \in differ : k <= j

\* the inner loop of FindMatches that determines the match length: it stops at
\* maxMatchLength or at the first position where the two strings differ
extendMatch(buffer, position, matchPosition, matchLength, maxMatchLength) ==
    LET differ == {k \in matchLength..(maxMatchLength - 1) :
                      At(buffer, position + k) # At(buffer, matchPosition + k)}
    IN  IF matchLength >= maxMatchLength THEN matchLength
        ELSE IF differ = {} THEN maxMatchLength
        ELSE CHOOSE k \in differ : \A j \in differ : k <= j

\* the comparison of the two strings with the sides exchanged
matchedIsSmaller(currentByte, matchedByte) == currentByte > matchedByte

\* the comparison of the two strings at the first byte after the match: the matched
\* string goes into the right subtree when the current string is the smaller one
matchedIsGreater(currentByte, matchedByte) == currentByte < matchedByte

\* the prefix skip that trusts the longer of the two bounds
surelyMatchingLonger(lowMatchLength, highMatchLength) == max(lowMatchLength, highMatchLength)

\* the number of characters that surely match: the shorter of the match lengths of the
\* low and the high bound
surelyMatching(lowMatchLength, highMatchLength) == min(lowMatchLength, highMatchLength)

\* the descent of FindMatches from matchPosition; c holds what the loop only reads, st what it changes
RECURSIVE findLoop(_, _)
findLoop(c, st) ==
    IF st.matchPosition < c.minMatchPosition \/ st.matchCount = MAX_MATCH_CANDIDATE_COUNT
    THEN [st EXCEPT !.children = Put(Put(@, st.leftSubtreeLeaf, INVALID_POSITION),
                                     st.rightSubtreeLeaf, INVALID_POSITION)]
    ELSE
      LET cyclicMatchPosition == st.matchPosition % c.dictionarySize
          matchLength == extendMatch(c.buffer, c.bufferBase + c.position,
                                     c.bufferBase + st.matchPosition,
                                     surelyMatching(st.lowMatchLength, st.highMatchLength),
                                     c.maxMatchLength)
          matchOffset == c.position - st.matchPosition
          longest == matchLength > st.longestMatchLength /\ matchLength >= MIN_MATCH_LENGTH
          st1 == [st EXCEPT !.matchCount = @ + 1,
                            !.longestMatchLength = IF longest THEN matchLength ELSE @,
                            !.matchCandidates =
                                IF longest /\ c.collect
                                THEN Append(@, [Length |-> matchLength, Offset |-> matchOffset])
                                ELSE @]
      IN  IF longest /\ matchLength = c.maxMatchLength
          THEN LET ch1 == Put(st1.children, st1.leftSubtreeLeaf,
                              Get(st1.children, c.childrenFill, cyclicMatchPosition * 2))
                   ch2 == Put(ch1, st1.rightSubtreeLeaf,
                              Get(ch1, c.childrenFill, cyclicMatchPosition * 2 + 1))
               IN  [st1 EXCEPT !.children = ch2]
          ELSE IF matchedIsGreater(At(c.buffer, c.bufferBase + c.position + matchLength),
                                   At(c.buffer, c.bufferBase + st.matchPosition + matchLength))
          THEN LET ch1 == Put(st1.children, st1.rightSubtreeLeaf, st.matchPosition)
               IN  findLoop(c, [st1 EXCEPT !.children = ch1,
                                           !.rightSubtreeLeaf = cyclicMatchPosition * 2,
                                           !.matchPosition =
                                               Get(ch1, c.childrenFill, cyclicMatchPosition * 2),
                                           !.highMatchLength = matchLength])
          ELSE LET ch1 == Put(st1.children, st1.leftSubtreeLeaf, st.matchPosition)
               IN  findLoop(c, [st1 EXCEPT !.children = ch1,
                                           !.leftSubtreeLeaf = cyclicMatchPosition * 2 + 1,
                                           !.matchPosition =
                                               Get(ch1, c.childrenFill, cyclicMatchPosition * 2 + 1),
                                           !.lowMatchLength = matchLength])

\* FindMatches; collect is matchCandidates != nil.  Yields the dictionary and the candidates
FindMatchesIn(d, collect, dictionarySize, rebaseThreshold) ==
    IF d.absolutePosition >= d.matchableBufferLength
    THEN [dict |-> [d EXCEPT !.absolutePosition = @ + 1], matchCandidates |-> <<>>,
          matchCount |-> 0]
    ELSE
      LET maxMatchLength == min(Len(d.buffer) - TAIL_LENGTH - d.absolutePosition, MAX_MATCH_LENGTH)
          rel == computeRelativePositionIn(d, dictionarySize, rebaseThreshold)
          d1 == rel.dict
          position == rel.position
          minMatchPosition == IF position >= dictionarySize THEN position - dictionarySize + 1 ELSE 0
          hashValue == hash(d1.buffer, d1.bufferBase + position) % HASH_TABLE_SIZE
          cyclicInputPosition == position % dictionarySize
          fin == findLoop([buffer |-> d1.buffer, bufferBase |-> d1.bufferBase, position |-> position,
                           minMatchPosition |-> minMatchPosition, maxMatchLength |-> maxMatchLength,
                           dictionarySize |-> dictionarySize, collect |-> collect,
                           childrenFill |-> d1.childrenFill],
                          [matchPosition |-> Get(d1.hashTable, INVALID_POSITION, hashValue),
                           children |-> d1.children,
                           leftSubtreeLeaf |-> cyclicInputPosition * 2,
                           rightSubtreeLeaf |-> cyclicInputPosition * 2 + 1,
                           lowMatchLength |-> 0, highMatchLength |-> 0,
                           longestMatchLength |-> 0, matchCount |-> 0,
                           matchCandidates |-> <<>>])
      IN  [dict |-> [d1 EXCEPT !.hashTable = Put(@, hashValue, position),
                               !.children = fin.children,
                               !.absolutePosition = @ + 1],
           matchCandidates |-> fin.matchCandidates,
           matchCount |-> fin.matchCount]

FindMatches(d, collect) == FindMatchesIn(d, collect, d.dictionarySize, d.rebaseThreshold)

Skip(d) == FindMatches(d, FALSE).dict

\* for i := 0; i < count; i++ { dict.Skip() }.  The calls are split in halves and the
\* first half is evaluated (its position is always >= 0) before the second starts,
\* which keeps the evaluation shallow
RECURSIVE skipTimes(_, _)
skipTimes(d, count) ==
    IF count <= 0 THEN d
    ELSE IF count = 1 THEN Skip(d)
    ELSE LET half == skipTimes(d, count \div 2)
         IN  IF half.absolutePosition >= 0
             THEN skipTimes(half, count - (count \div 2))
             ELSE half

(***************************************************************************)
(* The header and match encoders of the compressor.                        *)
(***************************************************************************)
getSizeCodedSize(size) ==
    IF size <= 255 THEN 1
    ELSE IF size <= 65535 THEN 2
    ELSE 4

getHeaderSize(maxCompressedSize) == 1 + 2 * getSizeCodedSize(maxCompressedSize)

\* the size with the header of the block itself instead of the largest header
GetMaxCompressedSizeOwnHeader(size) == getHeaderSize(size) + size

GetMaxCompressedSize(size) == getHeaderSize(MaxInt) + size

\* the count low bytes of v, little-endian, for 0 <= v < 2^31: what byte(v), uint16(v),
\* uint32(v) and PutUint64 store
littleEndian(v, count) == [i \in 1..count |-> IF i <= 4 THEN (v \div (256 ^ (i - 1))) % 256 ELSE 0]

NoMatch == [Length |-> 0, Offset |-> 0]

\* uint(match.Length - MIN_MATCH_LENGTH): a negative difference wraps to a value above
\* every threshold it is compared with
lengthCodeOf(match) ==
    IF match.Length >= MIN_MATCH_LENGTH THEN match.Length - MIN_MATCH_LENGTH
    ELSE MaxInt + (match.Length - MIN_MATCH_LENGTH + 1)

\* the low 32 bits of (offsetCode << 11) | (lengthCode << 3) | 7 for lengthCode < 256
longCode(offsetCode, lengthCode) ==
    LET low == lengthCode * 8 + 7
    IN  <<low % 256, (low \div 256) + (offsetCode % 32) * 8,
          (offsetCode \div 32) % 256, (offsetCode \div 8192) % 256>>

\* encodeMatch: the word and the size written (the word is not used for a nil destination)
encodeMatch(match) ==
    LET lengthCode == lengthCodeOf(match)
        offsetCode == match.Offset
    IN  IF lengthCode = 0 /\ offsetCode < 64
        THEN [word |-> WordOfInt(offsetCode * 4), size |-> 1]
        ELSE IF lengthCode = 0 /\ offsetCode < 16384
        THEN [word |-> WordOfInt(offsetCode * 4 + 1), size |-> 2]
        ELSE IF lengthCode < 16 /\ offsetCode < 1024
        THEN [word |-> WordOfInt(offsetCode * 64 + lengthCode * 4 + 2), size |-> 2]
        ELSE IF lengthCode < 32 /\ offsetCode < 65536
        THEN [word |-> WordOfInt(offsetCode * 256 + lengthCode * 8 + 3), size |-> 3]
        ELSE [word |-> IF lengthCode < 256 THEN longCode(offsetCode, lengthCode)
                       ELSE <<0, 0, 0, 0>>,
              size |-> 4]

getMatchCodedSize(match) == encodeMatch(match).size

\* getBestMatch that takes a candidate whose length equals its coded size
RECURSIVE getBestMatchNotStrict(_)
getBestMatchNotStrict(matchCandidates) ==
    IF matchCandidates = <<>> THEN NoMatch
    ELSE IF Head(matchCandidates).Length >= getMatchCodedSize(Head(matchCandidates))
    THEN Head(matchCandidates)
    ELSE getBestMatchNotStrict(Tail(matchCandidates))

RECURSIVE getBestMatch(_)
getBestMatch(matchCandidates) ==
    IF matchCandidates = <<>> THEN NoMatch
    ELSE IF Head(matchCandidates).Length > getMatchCodedSize(Head(matchCandidates))
    THEN Head(matchCandidates)
    ELSE getBestMatch(Tail(matchCandidates))

\* the attribute byte of a header
attributesOf(header, sizeCodedSize) ==
    header.Version + (sizeCodedSize - 1) * 8 + (IF header.IsStored THEN 128 ELSE 0)

\* encodeHeader with the two size fields in the wrong order
encodeHeaderSwapped(header, maxCompressedSize, destination) ==
    LET sizeCodedSize == getSizeCodedSize(maxCompressedSize)
    IN  WriteBytes(destination, 0,
            <<attributesOf(header, sizeCodedSize)>>
            \o littleEndian(header.CompressedSize, sizeCodedSize)
            \o littleEndian(header.UncompressedSize, sizeCodedSize))

\* encodeHeader: destination with the header written (destination holds at least 9 bytes)
encodeHeader(header, maxCompressedSize, destination) ==
    LET sizeCodedSize == getSizeCodedSize(maxCompressedSize)
    IN  WriteBytes(destination, 0,
            <<attributesOf(header, sizeCodedSize)>>
            \o littleEndian(header.UncompressedSize, sizeCodedSize)
            \o littleEndian(header.CompressedSize, sizeCodedSize))

(***************************************************************************)
(* Sizes as the 64-bit build holds them: four 16-bit limbs, the lowest     *)
(* first.                                                                  *)
(***************************************************************************)
LIMB == 65536

\* the limbs of v for 0 <= v < 2^31
wideOf(v) == <<v % LIMB, v \div LIMB, 0, 0>>

\* size + k for 0 <= k < LIMB
wideAdd(size, k) ==
    LET s1 == size[1] + k
        s2 == size[2] + (s1 \div LIMB)
        s3 == size[3] + (s2 \div LIMB)
        s4 == size[4] + (s3 \div LIMB)
    IN  <<s1 % LIMB, s2 % LIMB, s3 % LIMB, s4 % LIMB>>

\* size <= 2^(8*count) - 1
wideFits(size, count) ==
    CASE count = 1 -> size[1] <= 255 /\ size[2] = 0 /\ size[3] = 0 /\ size[4] = 0
      [] count = 2 -> size[2] = 0 /\ size[3] = 0 /\ size[4] = 0
      [] count = 4 -> size[3] = 0 /\ size[4] = 0
      [] OTHER     -> TRUE

\* getSizeCodedSize of a 64-bit size
getSizeCodedSizeWide(size) ==
    IF wideFits(size, 1) THEN 1
    ELSE IF wideFits(size, 2) THEN 2
    ELSE 4

\* GetMaxCompressedSize of a 64-bit size: getHeaderSize(MaxInt) is 9 there as well
GetMaxCompressedSizeWide(size) == wideAdd(size, 1 + 2 * getSizeCodedSizeWide(<<LIMB - 1, LIMB - 1, LIMB - 1, 32767>>))

\* the count low bytes of a 64-bit size, little-endian: what byte(v), uint16(v),
\* uint32(v) and PutUint64 store in a size field
wideField(size, count) ==
    [i \in 1..count |->
        LET limb == size[(i + 1) \div 2]
        IN  IF i % 2 = 1 THEN limb % 256 ELSE limb \div 256]

\* size >> 1
wideHalf(size) ==
    [j \in 1..4 |-> (size[j] \div 2) + (IF j < 4 THEN (size[j + 1] % 2) * (LIMB \div 2) ELSE 0)]

\* the value a decoder reads back from a size field
wideOfField(field) ==
    [j \in 1..4 |->
        (IF 2 * j - 1 <= Len(field) THEN field[2 * j - 1] ELSE 0)
        + 256 * (IF 2 * j <= Len(field) THEN field[2 * j] ELSE 0)]

\* store that reports the size of a block with the largest header
storeMaxHeader(source, destination) ==
    LET maxCompressedSize == GetMaxCompressedSize(Len(source))
        headerSize == getHeaderSize(maxCompressedSize)
        header == [Version |-> VERSION, IsStored |-> TRUE,
                   UncompressedSize |-> Len(source), CompressedSize |-> maxCompressedSize]
        withHeader == encodeHeader(header, maxCompressedSize, destination)
    IN  [destination |-> WriteBytes(withHeader, headerSize,
                                    SubSeq(source, 1, min(Len(source), Len(destination) - headerSize))),
         compressedSize |-> maxCompressedSize]

\* store: the stored block and its size
store(source, destination) ==
    LET maxCompressedSize == GetMaxCompressedSize(Len(source))
        headerSize == getHeaderSize(maxCompressedSize)
        compressedSize == headerSize + Len(source)
        header == [Version |-> VERSION, IsStored |-> TRUE,
                   UncompressedSize |-> Len(source), CompressedSize |-> compressedSize]
        withHeader == encodeHeader(header, maxCompressedSize, destination)
    IN  [destination |-> WriteBytes(withHeader, headerSize,
                                    SubSeq(source, 1, min(Len(source), Len(destination) - headerSize))),
         compressedSize |-> compressedSize]

\* the check without the room an iteration and the trailing dummy need
outputTooLargeLate(outputIterator, maxOutputEnd) == outputIterator > maxOutputEnd

\* the check with the room subtracted instead of added
outputTooLargeSign(outputIterator, maxOutputEnd) ==
    outputIterator - 2 * WORD_SIZE - TRAILING_DUMMY_SIZE > maxOutputEnd

\* the check at the head of the compression loop: the output is too large, store instead
outputTooLarge(outputIterator, maxOutputEnd) ==
    outputIterator + 2 * WORD_SIZE + TRAILING_DUMMY_SIZE > maxOutputEnd

\* lazy evaluation: the next match compresses better than the current one
discardMatch(match, nextMatch) ==
    /\ match.Length > 0
    /\ (1 + nextMatch.Length) * getMatchCodedSize(match)
          > match.Length * (1 + getMatchCodedSize(nextMatch))

\* a control word whose 32 bits all describe tokens
controlWordBitCountNoGuard == WORD_SIZE * 8

controlWordBitCount == WORD_SIZE * 8 - 1
controlWordGuardBit == <<0, 0, 0, 128>>

(***************************************************************************)
(* The decompressor: its tables, the header and match decoders.            *)
(***************************************************************************)
\* a table whose run for four literal bits is empty
literalRunLengthTableStuck == <<0, 0, 1, 0, 2, 0, 1, 0, 3, 0, 1, 0, 2, 0, 1, 0>>

\* the tables that initialize() sets (decompressor.go lines 24-36)
literalRunLengthTable == <<4, 0, 1, 0, 2, 0, 1, 0, 3, 0, 1, 0, 2, 0, 1, 0>>

\* d.lut; maskBytes is the number of low bytes the mask keeps (0xff, 0xffff, 0xffffff, 0xffffffff)
lut ==
    << [maskBytes |-> 1, offsetShift |-> 2, lengthMask |-> 0, lengthShift |-> 0, size |-> 1],
       [maskBytes |-> 2, offsetShift |-> 2, lengthMask |-> 0, lengthShift |-> 0, size |-> 2],
       [maskBytes |-> 2, offsetShift |-> 6, lengthMask |-> 15, lengthShift |-> 2, size |-> 2],
       [maskBytes |-> 3, offsetShift |-> 8, lengthMask |-> 31, lengthShift |-> 3, size |-> 3],
       [maskBytes |-> 1, offsetShift |-> 2, lengthMask |-> 0, lengthShift |-> 0, size |-> 1],
       [maskBytes |-> 2, offsetShift |-> 2, lengthMask |-> 0, lengthShift |-> 0, size |-> 2],
       [maskBytes |-> 2, offsetShift |-> 6, lengthMask |-> 15, lengthShift |-> 2, size |-> 2],
       [maskBytes |-> 4, offsetShift |-> 11, lengthMask |-> 255, lengthShift |-> 3, size |-> 4] >>

\* (word & mask) >> shift for a mask of maskBytes low bytes and shift <= 24
maskedShift(word, maskBytes, shift) ==
    LET low == word[1] + (IF maskBytes >= 2 THEN word[2] * 256 ELSE 0)
                       + (IF maskBytes >= 3 THEN word[3] * 65536 ELSE 0)
        high == IF maskBytes >= 4 THEN word[4] ELSE 0
    IN  (low \div (2 ^ shift)) + high * (2 ^ (24 - shift))

\* decodeMatch on source[offset:] with d.lut = table: the match and its size in bytes
decodeMatch(table, source, offset) ==
    LET word == FastRead(source, offset, WORD_SIZE)
        entry == table[(word[1] % 8) + 1]
    IN  [match |-> [Length |-> (((word[1] + word[2] * 256) \div (2 ^ entry.lengthShift))
                                   % (entry.lengthMask + 1)) + MIN_MATCH_LENGTH,
                    Offset |-> maskedShift(word, entry.maskBytes, entry.offsetShift)],
         size |-> entry.size]

\* a little-endian size field as a number; a value of 2^31 or more is kept as MaxInt:
\* it is only ever compared with slice lengths, all far below
RECURSIVE fieldValue(_)
fieldValue(bytes) ==
    IF bytes = <<>> THEN 0
    ELSE LET rest == fieldValue(Tail(bytes))
         IN  IF rest >= 8388608 THEN MaxInt ELSE Head(bytes) + 256 * rest

ZeroHeader == [UncompressedSize |-> 0, CompressedSize |-> 0, Version |-> 0, IsStored |-> FALSE]

\* decodeHeader whose switch has no default case: an unknown size class leaves the
\* size fields zero and is accepted
decodeHeaderNoDefault(src) ==
    IF Len(src) < 1
    THEN [result |-> RESULT_ERROR_BUFFER_TOO_SMALL, header |-> ZeroHeader, headerSize |-> 0]
    ELSE
      LET attributes == At(src, 0)
          rest == Tail(src)
          version == attributes % 8
          sizeCodedSize == ((attributes \div 8) % 8) + 1
          headerSize == 1 + 2 * sizeCodedSize
          known == sizeCodedSize \in {1, 2, 4, 8}
      IN  IF Len(rest) < headerSize
          THEN [result |-> RESULT_ERROR_BUFFER_TOO_SMALL,
                header |-> [ZeroHeader EXCEPT !.Version = version], headerSize |-> headerSize]
          ELSE [result |-> RESULT_OK,
                header |-> [Version |-> version,
                            IsStored |-> (attributes \div 128) % 2 = 1,
                            UncompressedSize |->
                                IF known THEN fieldValue(SubSeq(rest, 1, sizeCodedSize)) ELSE 0,
                            CompressedSize |->
                                IF known THEN fieldValue(SubSeq(rest, sizeCodedSize + 1,
                                                                2 * sizeCodedSize))
                                ELSE 0],
                headerSize |-> headerSize]

\* decodeHeader: Result, header and header size
decodeHeader(src) ==
    IF Len(src) < 1
    THEN [result |-> RESULT_ERROR_BUFFER_TOO_SMALL, header |-> ZeroHeader, headerSize |-> 0]
    ELSE
      LET attributes == At(src, 0)
          rest == Tail(src)
          version == attributes % 8
          sizeCodedSize == ((attributes \div 8) % 8) + 1
          headerSize == 1 + 2 * sizeCodedSize
      IN  IF Len(rest) < headerSize
          THEN [result |-> RESULT_ERROR_BUFFER_TOO_SMALL,
                header |-> [ZeroHeader EXCEPT !.Version = version], headerSize |-> headerSize]
          ELSE IF sizeCodedSize \in {1, 2, 4, 8}
          THEN [result |-> RESULT_OK,
                header |-> [Version |-> version,
                            IsStored |-> (attributes \div 128) % 2 = 1,
                            UncompressedSize |-> fieldValue(SubSeq(rest, 1, sizeCodedSize)),
                            CompressedSize |-> fieldValue(SubSeq(rest, sizeCodedSize + 1,
                                                                 2 * sizeCodedSize))],
                headerSize |-> headerSize]
          ELSE [result |-> RESULT_ERROR_CORRUPTED_DATA,
                header |-> [ZeroHeader EXCEPT !.Version = version,
                                              !.IsStored = (attributes \div 128) % 2 = 1],
                headerSize |-> headerSize]

NoInfo == [result |-> RUNNING, UncompressedSize |-> 0, CompressedSize |-> 0, Version |-> 0]

\* GetCompressionInfo: Result and CompressionInfo
GetCompressionInfo(src) ==
    LET decoded == decodeHeader(src)
    IN  IF decoded.result # RESULT_OK
        THEN [result |-> decoded.result, UncompressedSize |-> 0, CompressedSize |-> 0, Version |-> 0]
        ELSE [result |-> RESULT_OK,
              UncompressedSize |-> decoded.header.UncompressedSize,
              CompressedSize |-> decoded.header.CompressedSize,
              Version |-> decoded.header.Version]

\* the stored copy that starts at the head of the block instead of after its header
copyStoredWithHeader(dst, count, src, from) ==
    WriteBytes(dst, 0, SubSeq(src, 1, min(count, Len(src))))

\* copy(dst[:count], src[from:]): min(count, len(src) - from) bytes
copyStored(dst, count, src, from) ==
    WriteBytes(dst, 0, SubSeq(src, from + 1, from + min(count, Len(src) - from)))

\* the byte-by-byte start of an overlapping match copy (decompressor.go lines 174-177);
\* ok is FALSE when an index leaves the slice
RECURSIVE copyBytes(_, _, _, _)
copyBytes(buffer, outputIterator, matchString, i) ==
    IF i >= 3 THEN [buffer |-> buffer, ok |-> TRUE]
    ELSE IF ~(InBounds(buffer, matchString + i, 1) /\ InBounds(buffer, outputIterator + i, 1))
    THEN [buffer |-> buffer, ok |-> FALSE]
    ELSE LET written == FastWrite(buffer, outputIterator + i,
                                  FastRead(buffer, matchString + i, 1), 1)
             \* the rest of the loop on the buffer as it stands, computed once
             rest == [w \in {written} |-> copyBytes(w, outputIterator, matchString, i + 1)]
         IN  rest[written]

\* the word-by-word match copy, a do-while (decompressor.go lines 187-190)
RECURSIVE copyWords(_, _, _, _, _)
copyWords(buffer, outputIterator, matchString, i, length) ==
    IF ~(InBounds(buffer, matchString + i, WORD_SIZE) /\ InBounds(buffer, outputIterator + i, WORD_SIZE))
    THEN [buffer |-> buffer, ok |-> FALSE]
    ELSE LET written == FastWrite(buffer, outputIterator + i,
                                  FastRead(buffer, matchString + i, WORD_SIZE), WORD_SIZE)
             \* the rest of the loop on the buffer as it stands, computed once
             rest == [w \in {written} |->
                         copyWords(w, outputIterator, matchString, i + WORD_SIZE, length)]
         IN  IF i + WORD_SIZE < length
             THEN rest[written]
             ELSE [buffer |-> written, ok |-> TRUE]

\* the whole copy of a match that passed the range check (decompressor.go lines 169-190)
copyMatch(buffer, outputIterator, match) ==
    LET matchString == outputIterator - match.Offset
    IN  IF match.Offset < WORD_SIZE
        THEN LET head == copyBytes(buffer, outputIterator, matchString, 0)
             IN  IF ~head.ok THEN head
                 ELSE copyWords(head.buffer, outputIterator,
                                matchString - (2 + (match.Offset % 2)), 3, match.Length)
        ELSE copyWords(buffer, outputIterator, matchString, 0, match.Length)

\* the check that a decoded match is out of range (decompressor.go line 165)
matchOutOfRange(outputIterator, match, outputTail) ==
    outputIterator - match.Offset < 0 \/ outputIterator + match.Length > outputTail

\* the check that the input has run out before a token (decompressor.go line 93)
inputExhausted(inputIterator, inputEnd) == inputIterator + 2 * WORD_SIZE > inputEnd

\* the check that the input has run out before a tail literal (decompressor.go line 129)
tailInputExhausted(inputIterator, inputEnd) == inputIterator + WORD_SIZE + 1 > inputEnd

(***************************************************************************)
(* The state: one Compressor with its dictionary, the buffers of a Compress*)
(* call, and one Decompress call with its buffers.                         *)
(***************************************************************************)
VARIABLES
    source,         \* Compress: the source slice
    destination,    \* Compress: the destination slice
    comp,           \* Compress: its locals, its Result and *compressedSize
    dict,           \* Compressor.dict
    tokens,         \* history: the literals and matches Compress has emitted, with their input positions
    dsource,        \* Decompress / GetCompressionInfo: the source slice
    ddestination,   \* Decompress: the destination slice
    dec,            \* Decompress: its locals and its Result
    decompressor,   \* the Decompressor: its two tables, nil (empty) until initialize() sets them
    info,           \* the last return of GetCompressionInfo
    sizing          \* the header of a block of any 64-bit size: its size class and its two size fields

vars == <<source, destination, comp, dict, tokens, dsource, ddestination, dec, decompressor, info,
          sizing>>

\* no header of a 64-bit size is being written
NoSizing == [pc |-> "none"]

\* *compressedSize before Compress has set it
Unset == -1

CompressorIdle ==
    [pc |-> "idle", result |-> RUNNING, compressedSize |-> Unset,
     maxCompressedSize |-> 0, outputIterator |-> 0,
     controlWord |-> controlWordGuardBit, controlWordBit |-> 0, controlWordPointer |-> 0,
     match |-> NoMatch, nextMatch |-> NoMatch,
     isStored |-> FALSE, written |-> 0]

\* Compress up to the loop (part_000 lines 44-91)
CompressStart ==
    /\ comp.pc = "idle"
    /\ IF Len(source) = 0 \/ Len(destination) < GetMaxCompressedSize(Len(source))
       THEN /\ comp' = [comp EXCEPT !.pc = "done", !.result = RESULT_ERROR_BUFFER_TOO_SMALL]
            /\ UNCHANGED dict
       ELSE LET maxCompressedSize == GetMaxCompressedSize(Len(source))
                outputIterator == getHeaderSize(maxCompressedSize)
            IN  /\ comp' = [comp EXCEPT !.pc = "loop",
                                        !.maxCompressedSize = maxCompressedSize,
                                        !.controlWord = controlWordGuardBit,
                                        !.controlWordBit = 0,
                                        !.controlWordPointer = outputIterator,
                                        !.outputIterator = outputIterator + WORD_SIZE,
                                        !.match = NoMatch,
                                        !.nextMatch = NoMatch]
                /\ dict' = Skip(SetBuffer(dict, source))
    /\ UNCHANGED <<source, destination, tokens, dsource, ddestination, dec, decompressor, info, sizing>>

\* the loop found the output too large: return c.store(...) (part_000 lines 101-104, 185-208)
CompressStore ==
    /\ comp.pc = "loop"
    /\ Position(dict) - 1 < Len(source)
    /\ outputTooLarge(comp.outputIterator, comp.maxCompressedSize)
    /\ LET stored == store(source, destination)
       IN  /\ destination' = stored.destination
           /\ comp' = [comp EXCEPT !.pc = "done", !.result = RESULT_OK, !.isStored = TRUE,
                                   !.compressedSize = stored.compressedSize,
                                   !.written = max(@, stored.compressedSize)]
    /\ UNCHANGED <<source, dict, tokens, dsource, ddestination, dec, decompressor, info, sizing>>

\* one iteration of the loop that emits a literal or a match (part_000 lines 106-157)
CompressIterate ==
    /\ comp.pc = "loop"
    /\ Position(dict) - 1 < Len(source)
    /\ ~outputTooLarge(comp.outputIterator, comp.maxCompressedSize)
    /\ \E found \in {FindMatches(dict, TRUE)} :
       \E nextMatch1 \in {getBestMatch(found.matchCandidates)} :
       \E match \in {IF discardMatch(comp.nextMatch, nextMatch1)
                     THEN [comp.nextMatch EXCEPT !.Length = 0] ELSE comp.nextMatch} :
       LET flush == comp.controlWordBit = controlWordBitCount
           flushOk == ~flush \/ InBounds(destination, comp.controlWordPointer, WORD_SIZE)
           destination1 == IF flush /\ flushOk
                           THEN FastWrite(destination, comp.controlWordPointer,
                                          comp.controlWord, WORD_SIZE)
                           ELSE destination
           controlWord1 == IF flush THEN controlWordGuardBit ELSE comp.controlWord
           controlWordBit1 == IF flush THEN 0 ELSE comp.controlWordBit
           controlWordPointer1 == IF flush THEN comp.outputIterator ELSE comp.controlWordPointer
           outputIterator1 == IF flush THEN comp.outputIterator + WORD_SIZE ELSE comp.outputIterator
           position == Position(dict) - 1
           code == encodeMatch(match)
           span == IF match.Length = 0 THEN 1 ELSE FastWriteSpan(code.size)
           tokenOk == InBounds(destination1, outputIterator1, span)
                      /\ (match.Length = 0 => InBounds(source, Position(found.dict) - 2, 1))
       IN  IF ~(flushOk /\ tokenOk)
           THEN /\ comp' = [comp EXCEPT !.pc = "done", !.result = PANICKED]
                /\ UNCHANGED <<destination, dict, tokens>>
           ELSE IF match.Length = 0
           THEN /\ destination' = FastWrite(destination1, outputIterator1,
                                            <<At(source, Position(found.dict) - 2), 0, 0, 0>>, 1)
                /\ dict' = found.dict
                /\ tokens' = Append(tokens, [kind |-> "literal", position |-> position,
                                             match |-> match])
                /\ comp' = [comp EXCEPT !.controlWord = controlWord1,
                                        !.controlWordBit = controlWordBit1 + 1,
                                        !.controlWordPointer = controlWordPointer1,
                                        !.outputIterator = outputIterator1 + 1,
                                        !.match = match,
                                        !.nextMatch = nextMatch1,
                                        !.written = max(@, outputIterator1 + 1)]
           ELSE \E found2 \in {FindMatches(skipTimes(found.dict, match.Length - 2), TRUE)} :
                /\ destination' = FastWrite(destination1, outputIterator1, code.word, code.size)
                /\ dict' = found2.dict
                /\ tokens' = Append(tokens, [kind |-> "match", position |-> position,
                                             match |-> match])
                /\ comp' = [comp EXCEPT !.controlWord = SetBit(controlWord1, controlWordBit1),
                                        !.controlWordBit = controlWordBit1 + 1,
                                        !.controlWordPointer = controlWordPointer1,
                                        !.outputIterator = outputIterator1 + code.size,
                                        !.match = match,
                                        !.nextMatch = getBestMatch(found2.matchCandidates),
                                        !.written = max(@, outputIterator1 + FastWriteCount(code.size))]
    /\ UNCHANGED <<source, dsource, ddestination, dec, decompressor, info, sizing>>

\* after the loop: the last control word, the trailing dummy and the header (part_000 lines 160-181)
CompressFinish ==
    /\ comp.pc = "loop"
    /\ ~(Position(dict) - 1 < Len(source))
    /\ IF ~(InBounds(destination, comp.controlWordPointer, WORD_SIZE)
            /\ InBounds(destination, comp.outputIterator, FastWriteSpan(TRAILING_DUMMY_SIZE)))
       THEN /\ comp' = [comp EXCEPT !.pc = "done", !.result = PANICKED]
            /\ UNCHANGED destination
       ELSE LET destination1 == FastWrite(destination, comp.controlWordPointer,
                                          comp.controlWord, WORD_SIZE)
                destination2 == FastWrite(destination1, comp.outputIterator,
                                          <<0, 0, 0, 0>>, TRAILING_DUMMY_SIZE)
                compressedSize == comp.outputIterator + TRAILING_DUMMY_SIZE
                header == [Version |-> VERSION, IsStored |-> FALSE,
                           UncompressedSize |-> Len(source), CompressedSize |-> compressedSize]
            IN  /\ destination' = encodeHeader(header, comp.maxCompressedSize, destination2)
                /\ comp' = [comp EXCEPT !.pc = "done", !.result = RESULT_OK,
                                        !.outputIterator = compressedSize,
                                        !.compressedSize = compressedSize,
                                        !.written = max(@, compressedSize)]
    /\ UNCHANGED <<source, dict, tokens, dsource, ddestination, dec, decompressor, info, sizing>>

(***************************************************************************)
(* Decompress and GetCompressionInfo.                                      *)
(***************************************************************************)
NoToken == [kind |-> "none", match |-> NoMatch, outputIterator |-> 0]

DecompressorIdle ==
    [pc |-> "idle", result |-> RUNNING, inputIterator |-> 0, outputIterator |-> 0,
     header |-> ZeroHeader, headerSize |-> 0, inputEnd |-> 0, outputEnd |-> 0, outputTail |-> 0,
     controlWord |-> <<1, 0, 0, 0>>, token |-> NoToken]

\* the zero value of Decompressor: both tables are nil slices
ZeroDecompressor == [literalRunLengthTable |-> <<>>, lut |-> <<>>]

\* a call of initialize() before Decompress (decompressor.go lines 24-36); no function of
\* the package makes it, code inside the package can
initialize ==
    /\ dec.pc = "ready"
    /\ decompressor = ZeroDecompressor
    /\ decompressor' = [literalRunLengthTable |-> literalRunLengthTable, lut |-> lut]
    /\ UNCHANGED <<source, destination, comp, dict, tokens, dsource, ddestination, dec, info, sizing>>

\* the caller hands a block and a destination to the decompressor
Supply(src, dst) ==
    /\ dec.pc = "idle"
    /\ dsource' = src
    /\ ddestination' = dst
    /\ dec' = [dec EXCEPT !.pc = "ready"]
    /\ UNCHANGED <<source, destination, comp, dict, tokens, decompressor, info, sizing>>

\* a call of GetCompressionInfo on the block (decompressor.go lines 203-219)
CallGetCompressionInfo ==
    /\ dec.pc = "ready"
    /\ info.result = RUNNING
    /\ info' = GetCompressionInfo(dsource)
    /\ UNCHANGED <<source, destination, comp, dict, tokens, dsource, ddestination, dec, decompressor, sizing>>

\* Decompress up to the decoding loop (decompressor.go lines 42-86)
DecompressStart ==
    /\ dec.pc = "ready"
    /\ info.result # RUNNING
    /\ LET decoded == decodeHeader(dsource)
           header == decoded.header
           uncompressedSize == header.UncompressedSize
       IN  IF decoded.result # RESULT_OK
           THEN /\ dec' = [dec EXCEPT !.pc = "done", !.result = decoded.result,
                                      !.header = header, !.headerSize = decoded.headerSize]
                /\ UNCHANGED ddestination
           ELSE IF header.Version # VERSION
           THEN /\ dec' = [dec EXCEPT !.pc = "done", !.result = RESULT_ERROR_UNSUPPORTED_VERSION,
                                      !.header = header, !.headerSize = decoded.headerSize,
                                      !.inputIterator = decoded.headerSize]
                /\ UNCHANGED ddestination
           ELSE IF Len(dsource) < header.CompressedSize \/ Len(ddestination) < uncompressedSize
           THEN /\ dec' = [dec EXCEPT !.pc = "done", !.result = RESULT_ERROR_BUFFER_TOO_SMALL,
                                      !.header = header, !.headerSize = decoded.headerSize,
                                      !.inputIterator = decoded.headerSize]
                /\ UNCHANGED ddestination
           ELSE IF header.IsStored
           THEN /\ dec' = [dec EXCEPT !.pc = "done", !.result = RESULT_OK,
                                      !.header = header, !.headerSize = decoded.headerSize,
                                      !.inputIterator = decoded.headerSize]
                /\ ddestination' = copyStored(ddestination, uncompressedSize, dsource,
                                              decoded.headerSize)
           ELSE /\ dec' = [dec EXCEPT !.pc = "loop",
                                      !.header = header, !.headerSize = decoded.headerSize,
                                      !.inputIterator = decoded.headerSize,
                                      !.outputIterator = 0,
                                      !.inputEnd = header.CompressedSize,
                                      !.outputEnd = uncompressedSize,
                                      !.outputTail = IF uncompressedSize > TAIL_LENGTH
                                                     THEN uncompressedSize - TAIL_LENGTH ELSE 0,
                                      !.controlWord = <<1, 0, 0, 0>>]
                /\ UNCHANGED ddestination
    /\ UNCHANGED <<source, destination, comp, dict, tokens, dsource, decompressor, info, sizing>>

DecompressReturn(result) ==
    /\ dec' = [dec EXCEPT !.pc = "done", !.result = result]
    /\ UNCHANGED ddestination

\* one iteration of the decoding loop (decompressor.go lines 89-123 and 152-197)
DecompressStep ==
    /\ dec.pc = "loop"
    /\ \E refill \in {dec.controlWord = <<1, 0, 0, 0>>} :
       IF inputExhausted(dec.inputIterator, dec.inputEnd)
       THEN DecompressReturn(RESULT_ERROR_CORRUPTED_DATA)
       ELSE IF refill /\ ~InBounds(dsource, dec.inputIterator, WORD_SIZE)
       THEN DecompressReturn(PANICKED)
       ELSE
         \E controlWord \in {IF refill THEN FastRead(dsource, dec.inputIterator, WORD_SIZE)
                             ELSE dec.controlWord} :
         \E inputIterator \in {IF refill THEN dec.inputIterator + WORD_SIZE
                               ELSE dec.inputIterator} :
         \E outputIterator \in {dec.outputIterator} :
         IF controlWord[1] % 2 = 0
         THEN IF outputIterator < dec.outputTail
              THEN IF ~(InBounds(dsource, inputIterator, WORD_SIZE)
                        /\ InBounds(ddestination, outputIterator, WORD_SIZE))
                   THEN DecompressReturn(PANICKED)
                   ELSE IF ~(controlWord[1] % 16 < Len(decompressor.literalRunLengthTable))
                   THEN \* line 112 has written, line 115 indexes a nil table
                        /\ ddestination' = FastWrite(ddestination, outputIterator,
                                               FastRead(dsource, inputIterator, WORD_SIZE),
                                               WORD_SIZE)
                        /\ dec' = [dec EXCEPT !.pc = "done", !.result = PANICKED,
                                              !.inputIterator = inputIterator,
                                              !.controlWord = controlWord,
                                              !.token = [kind |-> "literal", match |-> NoMatch,
                                                         outputIterator |-> outputIterator]]
                   ELSE \E runLength \in
                            {decompressor.literalRunLengthTable[(controlWord[1] % 16) + 1]} :
                        /\ ddestination' = FastWrite(ddestination, outputIterator,
                                               FastRead(dsource, inputIterator, WORD_SIZE),
                                               WORD_SIZE)
                        /\ dec' = [dec EXCEPT !.inputIterator = inputIterator + runLength,
                                              !.outputIterator = outputIterator + runLength,
                                              !.controlWord = ShiftRight(controlWord, runLength),
                                              !.token = [kind |-> "literal", match |-> NoMatch,
                                                         outputIterator |-> outputIterator]]
              ELSE /\ dec' = [dec EXCEPT !.pc = "tail",
                                         !.inputIterator = inputIterator,
                                         !.controlWord = controlWord]
                   /\ UNCHANGED ddestination
         ELSE IF ~InBounds(dsource, inputIterator, WORD_SIZE)
         THEN DecompressReturn(PANICKED)
         ELSE
           \E lutIndex \in {At(dsource, inputIterator) % 8} :
           \* the token the bytes hold, for the record when d.lut cannot be indexed
           \E decoded \in {decodeMatch(IF lutIndex < Len(decompressor.lut)
                                       THEN decompressor.lut ELSE lut,
                                       dsource, inputIterator)} :
           \E match \in {decoded.match} :
           IF ~(lutIndex < Len(decompressor.lut))
           THEN \* decodeMatch indexes a nil d.lut (line 231)
                /\ dec' = [dec EXCEPT !.pc = "done", !.result = PANICKED,
                                      !.inputIterator = inputIterator,
                                      !.controlWord = controlWord,
                                      !.token = [kind |-> "match", match |-> match,
                                                 outputIterator |-> outputIterator]]
                /\ UNCHANGED ddestination
           ELSE IF matchOutOfRange(outputIterator, match, dec.outputTail)
           THEN /\ dec' = [dec EXCEPT !.pc = "done", !.result = RESULT_ERROR_CORRUPTED_DATA,
                                      !.inputIterator = inputIterator + decoded.size,
                                      !.controlWord = controlWord,
                                      !.token = [kind |-> "match", match |-> match,
                                                 outputIterator |-> outputIterator]]
                /\ UNCHANGED ddestination
           ELSE
             \E copied \in {copyMatch(ddestination, outputIterator, match)} :
             IF ~copied.ok
             THEN /\ dec' = [dec EXCEPT !.pc = "done", !.result = PANICKED,
                                        !.token = [kind |-> "match", match |-> match,
                                                   outputIterator |-> outputIterator]]
                  /\ UNCHANGED ddestination
             ELSE /\ ddestination' = copied.buffer
                  /\ dec' = [dec EXCEPT !.inputIterator = inputIterator + decoded.size,
                                        !.outputIterator = outputIterator + match.Length,
                                        !.controlWord = ShiftRight(controlWord, 1),
                                        !.token = [kind |-> "match", match |-> match,
                                                   outputIterator |-> outputIterator]]
    /\ UNCHANGED <<source, destination, comp, dict, tokens, dsource, decompressor, info, sizing>>

\* one iteration of the loop that outputs the remaining literals, or its end
\* (decompressor.go lines 126-150)
DecompressTail ==
    /\ dec.pc = "tail"
    /\ LET refill == dec.controlWord = <<1, 0, 0, 0>>
           refillOk == ~refill \/ InBounds(dsource, dec.inputIterator, WORD_SIZE)
           controlWord == IF refill THEN FastRead(dsource, dec.inputIterator, WORD_SIZE)
                          ELSE dec.controlWord
           inputIterator == IF refill THEN dec.inputIterator + WORD_SIZE ELSE dec.inputIterator
       IN  IF ~(dec.outputIterator < dec.outputEnd)
           THEN DecompressReturn(RESULT_OK)
           ELSE IF tailInputExhausted(dec.inputIterator, dec.inputEnd)
           THEN DecompressReturn(RESULT_ERROR_CORRUPTED_DATA)
           ELSE IF ~(refillOk /\ InBounds(dsource, inputIterator, 1)
                     /\ InBounds(ddestination, dec.outputIterator, 1))
           THEN DecompressReturn(PANICKED)
           ELSE /\ ddestination' = WriteBytes(ddestination, dec.outputIterator,
                                              <<At(dsource, inputIterator)>>)
                /\ dec' = [dec EXCEPT !.inputIterator = inputIterator + 1,
                                      !.outputIterator = dec.outputIterator + 1,
                                      !.controlWord = ShiftRight(controlWord, 1),
                                      !.token = [kind |-> "literal", match |-> NoMatch,
                                                 outputIterator |-> dec.outputIterator]]
    /\ UNCHANGED <<source, destination, comp, dict, tokens, dsource, decompressor, info, sizing>>

(***************************************************************************)
(* The inputs of Compress that are explored.                               *)
(***************************************************************************)
\* periodic inputs: every word of up to MaxPeriod letters, repeated to every length up to MaxLen
MaxPeriod == 3
MaxLen == 30
\* mixed inputs: pseudo-random letters, MaxSeed + 1 of them for each of the lengths
\* MixedLen - MixedSpread .. MixedLen (two control words are needed from 32 tokens on)
MaxSeed == 40
MixedLen == 45
MixedSpread == 3
\* a run of one letter long enough for a match of MAX_MATCH_LENGTH
RunLen == 300
\* the phrase of scenario 5, ten times: a header with 2-byte size fields
PhraseLen == 260

Letters == {97, 98, 99}

Words == UNION {[1..p -> Letters] : p \in 1..MaxPeriod}

Periodic(word, n) == [i \in 1..n |-> word[((i - 1) % Len(word)) + 1]]

PeriodicInputs == {Periodic(word, n) : word \in Words, n \in 0..MaxLen}

\* a linear congruential sequence
RECURSIVE mixer(_, _)
mixer(seed, i) == IF i = 0 THEN seed + 1 ELSE (mixer(seed, i - 1) * 75 + 74) % 65537

Mixed(seed, n) == [i \in 1..n |-> 97 + (mixer(seed, i) % 3)]

MixedInputs == {Mixed(seed, n) : seed \in 0..MaxSeed, n \in (MixedLen - MixedSpread)..MixedLen}

\* "abcabcabcabc"
Abc12 == Periodic(<<97, 98, 99>>, 12)

\* "the quick brown fox jumps "
Phrase == <<116, 104, 101, 32, 113, 117, 105, 99, 107, 32, 98, 114, 111, 119, 110, 32,
            102, 111, 120, 32, 106, 117, 109, 112, 115, 32>>

\* a word of WordLen different bytes, repeated to LongLen bytes: its first match comes
\* after more than 31 literals, under the second control word
WordLen == 40
LongLen == 100

LongWord == [i \in 1..WordLen |-> 64 + i]

NamedInputs == {Abc12, Periodic(Phrase, PhraseLen), Periodic(<<97>>, RunLen),
                Periodic(LongWord, LongLen)}

Inputs == PeriodicInputs \cup MixedInputs \cup NamedInputs

\* the destination of Compress: exactly the required size, one byte short, or a word more
Destinations(n) == {Zeros(GetMaxCompressedSize(n) + k) : k \in {-1, 0, WORD_SIZE}}

InitWith(sources) ==
    /\ source \in sources
    /\ destination \in Destinations(Len(source))
    /\ comp = CompressorIdle
    /\ dict = NewDictionary
    /\ tokens = <<>>
    /\ dsource = <<>>
    /\ ddestination = <<>>
    /\ dec = DecompressorIdle
    /\ decompressor = ZeroDecompressor
    /\ info = NoInfo
    /\ sizing = NoSizing

Init == InitWith(Inputs)

\* the block Compress has produced: destination[0 : compressedSize]
Block == SubSeq(destination, 1, comp.compressedSize)

Compressed == comp.pc = "done" /\ comp.result = RESULT_OK

\* the caller decompresses the block into a buffer of the original length
SupplyBlock ==
    /\ Compressed
    /\ Supply(Block, Zeros(Len(source)))

Next ==
    \/ CompressStart
    \/ CompressStore
    \/ CompressIterate
    \/ CompressFinish
    \/ SupplyBlock
    \/ initialize
    \/ CallGetCompressionInfo
    \/ DecompressStart
    \/ DecompressStep
    \/ DecompressTail

Spec == Init /\ [][Next]_vars

(***************************************************************************)
(* Adversarial sources for Decompress: a block Compress has produced with  *)
(* one byte replaced or with its end cut off, and short sources made of a  *)
(* few byte values; destinations of the declared size, one byte less, and  *)
(* the original size.                                                      *)
(***************************************************************************)
MaxCraftLen == 4
MaxDestination == 64

\* attribute bytes (stored flag, version 3, size classes 2 and 6), control bits and match codes
FuzzBytes == {0, 1, 3, 7, 8, 40, 128, 255}
CraftBytes == {0, 1, 3, 5, 40, 128}

FuzzSeeds ==
    {<<>>, Periodic(<<97, 98, 99>>, 5), Periodic(<<97>>, 20), Periodic(<<97, 98>>, 24),
     Periodic(<<97, 98, 99>>, 28), Mixed(0, MixedLen), Mixed(9, MixedLen - MixedSpread)}

Corrupt(block, k, v) == [block EXCEPT ![k + 1] = v]

Adversarial(block) ==
    {block}
    \cup {Corrupt(block, k, v) : k \in 0..(Len(block) - 1), v \in FuzzBytes}
    \cup {Corrupt(block, k, (At(block, k) + d) % 256) : k \in 0..(Len(block) - 1), d \in {1, 255}}
    \cup {SubSeq(block, 1, n) : n \in 0..(Len(block) - 1)}

CraftedSources == UNION {[1..n -> CraftBytes] : n \in 0..MaxCraftLen}

FuzzDestinations(src, original) ==
    LET declared == decodeHeader(src).header.UncompressedSize
    IN  {Zeros(n) : n \in {declared - 1, declared, original} \cap 0..MaxDestination}

InitFuzz ==
    /\ InitWith(FuzzSeeds)
    /\ Len(destination) = GetMaxCompressedSize(Len(source))

\* the caller decompresses a damaged copy of the block
SupplyCorrupted ==
    /\ dec.pc = "idle"
    /\ Compressed
    /\ \E src \in Adversarial(Block) :
          \E dst \in FuzzDestinations(src, Len(source)) : Supply(src, dst)

\* the caller decompresses bytes that no compressor produced
SupplyCrafted ==
    /\ dec.pc = "idle"
    /\ comp.pc = "done"
    /\ comp.result # RESULT_OK
    /\ \E src \in CraftedSources :
          \E dst \in FuzzDestinations(src, Len(src)) : Supply(src, dst)

NextFuzz ==
    \/ CompressStart
    \/ CompressStore
    \/ CompressIterate
    \/ CompressFinish
    \/ SupplyCorrupted
    \/ SupplyCrafted
    \/ initialize
    \/ CallGetCompressionInfo
    \/ DecompressStart
    \/ DecompressStep
    \/ DecompressTail

SpecFuzz == InitFuzz /\ [][NextFuzz]_vars

(***************************************************************************)
(* A test build with a small dictionary and REBASE_THRESHOLD a small       *)
(* multiple of DICTIONARY_SIZE: the inputs of Spec are long enough for the *)
(* relative position to reach the threshold.                               *)
(***************************************************************************)
SmallDictionary == 8
MaxThresholdMultiple == 3

TestBuilds ==
    {BuildDictionary(SmallDictionary, k * SmallDictionary) : k \in 2..MaxThresholdMultiple}

InitRebase ==
    /\ source \in Inputs
    /\ destination = Zeros(GetMaxCompressedSize(Len(source)))
    /\ comp = CompressorIdle
    /\ dict \in TestBuilds
    /\ tokens = <<>>
    /\ dsource = <<>>
    /\ ddestination = <<>>
    /\ dec = DecompressorIdle
    /\ decompressor = ZeroDecompressor
    /\ info = NoInfo
    /\ sizing = NoSizing

SpecRebase == InitRebase /\ [][Next]_vars

(***************************************************************************)
(* The dictionary on its own: SetBuffer, then one FindMatches or Skip call *)
(* after the other (both leave the same dictionary), and SetBuffer again   *)
(* on the used dictionary, as the next Compress call of the same           *)
(* Compressor does.                                                        *)
(***************************************************************************)
\* ChainLen strings with the same first three bytes, each greater than the one before,
\* then one smaller than all of them: its search visits every node of the tree
ChainLen == 130

Chain ==
    [i \in 1..(4 * (ChainLen + 1) + TAIL_LENGTH + MIN_MATCH_LENGTH) |->
        IF i > 4 * (ChainLen + 1) THEN i - 4 * (ChainLen + 1)
        ELSE IF i % 4 = 0 THEN (IF i = 4 * (ChainLen + 1) THEN 0 ELSE i \div 4)
        ELSE 119 + (i % 4)]

\* buffers whose trees stay shallow
TreeBuffers == MixedInputs \cup NamedInputs

DictionaryBuffers == TreeBuffers \cup {Chain}

\* the buffers of a second call
ReuseBuffers == {Abc12, Mixed(0, MixedLen - MixedSpread), Mixed(MaxSeed, MixedLen)}

InitDictionaryWith(buffers) ==
    /\ source \in buffers
    /\ destination = <<>>
    /\ comp = CompressorIdle
    /\ dict \in TestBuilds \cup {NewDictionary}
    /\ tokens = <<>>
    /\ dsource = <<>>
    /\ ddestination = <<>>
    /\ dec = DecompressorIdle
    /\ decompressor = ZeroDecompressor
    /\ info = NoInfo
    /\ sizing = NoSizing

InitDictionary == InitDictionaryWith(DictionaryBuffers)

InitTrees == InitDictionaryWith(TreeBuffers)

\* every position of the buffer has been passed, as at the end of Compress
dictionaryDone == Len(dict.buffer) > 0 /\ Position(dict) > Len(dict.buffer)

\* dict.SetBuffer(source) on the new dictionary
DictionarySetBuffer ==
    /\ Len(dict.buffer) = 0
    /\ dict' = SetBuffer(dict, source)
    /\ UNCHANGED <<source, destination, comp, tokens, dsource, ddestination, dec, decompressor,
                   info, sizing>>

\* dict.SetBuffer(buffer) on the dictionary a call has used
DictionaryReuse ==
    /\ dictionaryDone
    /\ dict.buffer \notin ReuseBuffers
    /\ Len(dict.buffer) < RunLen
    /\ \E buffer \in ReuseBuffers :
          /\ source' = buffer
          /\ dict' = SetBuffer(dict, buffer)
    /\ UNCHANGED <<destination, comp, tokens, dsource, ddestination, dec, decompressor, info,
                   sizing>>

\* dict.FindMatches(matchCandidates) or dict.Skip()
DictionaryFindMatches ==
    /\ Len(dict.buffer) > 0
    /\ ~dictionaryDone
    /\ dict' = FindMatches(dict, TRUE).dict
    /\ UNCHANGED <<source, destination, comp, tokens, dsource, ddestination, dec, decompressor,
                   info, sizing>>

NextDictionary ==
    \/ DictionarySetBuffer
    \/ DictionaryReuse
    \/ DictionaryFindMatches

SpecDictionary == InitDictionary /\ [][NextDictionary]_vars

SpecTrees == InitTrees /\ [][NextDictionary]_vars

(***************************************************************************)
(* The header of a block of any size a 64-bit build can hold: the size     *)
(* class Compress picks from GetMaxCompressedSize(len(source)) and the two *)
(* size fields encodeHeader writes with it.                                *)
(***************************************************************************)
SizeLimbs == {0, 1, 255, 256, LIMB - 1}

\* source lengths from 1 up to 2^57
SourceSizes ==
    {<<a, b, c, d>> : a \in SizeLimbs, b \in SizeLimbs, c \in SizeLimbs, d \in SizeLimbs \ {LIMB - 1}}
        \ {<<0, 0, 0, 0>>}

InitSizes ==
    /\ source = <<>>
    /\ destination = <<>>
    /\ comp = CompressorIdle
    /\ dict = NewDictionary
    /\ tokens = <<>>
    /\ dsource = <<>>
    /\ ddestination = <<>>
    /\ dec = DecompressorIdle
    /\ decompressor = ZeroDecompressor
    /\ info = NoInfo
    /\ \E size \in SourceSizes : sizing = [pc |-> "start", UncompressedSize |-> size]

\* the attribute byte and the size fields encodeHeader writes for a source of
\* sizing.UncompressedSize bytes and a block of compressedSize bytes
EncodeSizes(isStored, compressedSize) ==
    LET maxCompressedSize == GetMaxCompressedSizeWide(sizing.UncompressedSize)
        sizeCodedSize == getSizeCodedSizeWide(maxCompressedSize)
    IN  /\ sizing.pc = "start"
        /\ sizing' = [pc |-> "written",
                      UncompressedSize |-> sizing.UncompressedSize,
                      CompressedSize |-> compressedSize,
                      maxCompressedSize |-> maxCompressedSize,
                      attributes |-> attributesOf([Version |-> VERSION, IsStored |-> isStored],
                                                  sizeCodedSize),
                      uncompressedField |-> wideField(sizing.UncompressedSize, sizeCodedSize),
                      compressedField |-> wideField(compressedSize, sizeCodedSize)]
        /\ UNCHANGED <<source, destination, comp, dict, tokens, dsource, ddestination, dec,
                       decompressor, info>>

\* the header of a stored block (store): headerSize + len(source) bytes
EncodeStored ==
    EncodeSizes(TRUE,
        wideAdd(sizing.UncompressedSize,
                1 + 2 * getSizeCodedSizeWide(GetMaxCompressedSizeWide(sizing.UncompressedSize))))

\* the header of a compressed block (the end of Compress), here of half the source's size
EncodeCompressed ==
    EncodeSizes(FALSE,
        wideAdd(wideHalf(sizing.UncompressedSize),
                1 + 2 * getSizeCodedSizeWide(GetMaxCompressedSizeWide(sizing.UncompressedSize))))

NextSizes ==
    \/ EncodeStored
    \/ EncodeCompressed

SpecSizes == InitSizes /\ [][NextSizes]_vars

(***************************************************************************)
(* Properties of Compress followed by Decompress (Spec).                   *)
(***************************************************************************)
\* what the attribute byte at the head of a block says
attributeStored(block) == (At(block, 0) \div 128) % 2 = 1
attributeHeaderSize(block) == 1 + 2 * (((At(block, 0) \div 8) % 8) + 1)

\* C1: round trip.  Compress of a non-empty source into a destination of at least
\* GetMaxCompressedSize(|s|) bytes returns OK, and Decompress of the block into a buffer
\* of |s| bytes returns OK and leaves the bytes of the source, stored block or not
RoundTrip ==
    /\ (comp.pc = "done" /\ Len(source) >= 1
                         /\ Len(destination) >= GetMaxCompressedSize(Len(source)))
          => comp.result = RESULT_OK
    /\ dec.pc = "done" => dec.result = RESULT_OK /\ ddestination = source

\* the round trip of a Decompressor whose tables initialize() has set
RoundTripInitialized ==
    (dec.pc = "done" /\ decompressor # ZeroDecompressor) =>
        dec.result = RESULT_OK /\ ddestination = source

\* C3: bound.  The output cursor of Compress never exceeds GetMaxCompressedSize(|s|), no
\* write goes past it, and so the returned compressedSize is at most GetMaxCompressedSize(|s|)
Bound ==
    /\ comp.result # PANICKED
    /\ comp.outputIterator <= GetMaxCompressedSize(Len(source))
    /\ comp.written <= GetMaxCompressedSize(Len(source))
    /\ Compressed => comp.compressedSize <= GetMaxCompressedSize(Len(source))

BoundWitness ==
    /\ Compressed
    /\ ~comp.isStored
    /\ comp.compressedSize > Len(source)

\* C4: info.  GetCompressionInfo on the block Compress produced returns OK with
\* UncompressedSize = |s|, Version = 0 and CompressedSize = the compressedSize Compress
\* returned, which is at most GetMaxCompressedSize(|s|)
Info ==
    info.result # RUNNING =>
        /\ info.result = RESULT_OK
        /\ info.UncompressedSize = Len(source)
        /\ info.Version = 0
        /\ info.CompressedSize = comp.compressedSize
        /\ info.CompressedSize <= GetMaxCompressedSize(Len(source))

InfoWitness ==
    /\ info.result = RESULT_OK
    /\ info.UncompressedSize > 255
    /\ info.CompressedSize < info.UncompressedSize

\* C5: stored equivalence.  When Compress takes the stored fallback it returns OK, the
\* block has the stored flag, the bytes after the header are the bytes of s, and
\* compressedSize = headerSize + |s| for the header size the attribute byte announces
StoredEquivalence ==
    (comp.pc = "done" /\ comp.isStored) =>
        /\ comp.result = RESULT_OK
        /\ attributeStored(destination)
        /\ comp.compressedSize = attributeHeaderSize(destination) + Len(source)
        /\ SubSeq(destination, attributeHeaderSize(destination) + 1,
                  attributeHeaderSize(destination) + Len(source)) = source

StoredEquivalenceWitness ==
    /\ comp.pc = "done"
    /\ comp.isStored
    /\ \E i \in DOMAIN tokens : tokens[i].kind = "match"

\* C6 as stated: every block returned with IsStored = 0 is no larger than the stored
\* encoding of the same input, headerSize + |s|
SavesSpace ==
    (Compressed /\ ~attributeStored(destination)) =>
        comp.compressedSize <= attributeHeaderSize(destination) + Len(source)

\* C6 amended: every block returned with IsStored = 0 is no larger than
\* GetMaxCompressedSize(|s|) = |s| + 9, the limit the check before each iteration keeps;
\* it can be larger than the stored encoding
NonStoredLimit ==
    (Compressed /\ ~attributeStored(destination)) =>
        comp.compressedSize <= Len(source) + getHeaderSize(MaxInt)

NonStoredLimitWitness ==
    /\ Compressed
    /\ ~attributeStored(destination)
    /\ comp.compressedSize > attributeHeaderSize(destination) + Len(source)

\* C7: match validity.  Every match Compress emits has 1 <= offset <= DICTIONARY_SIZE,
\* MIN_MATCH_LENGTH <= length <= MAX_MATCH_LENGTH, and an offset that does not exceed
\* the input position where the match starts
MatchValidity ==
    \A i \in DOMAIN tokens :
        tokens[i].kind = "match" =>
            /\ 1 <= tokens[i].match.Offset
            /\ tokens[i].match.Offset <= DICTIONARY_SIZE
            /\ MIN_MATCH_LENGTH <= tokens[i].match.Length
            /\ tokens[i].match.Length <= MAX_MATCH_LENGTH
            /\ tokens[i].match.Offset <= tokens[i].position

MatchValidityWitness ==
    \E i \in DOMAIN tokens :
        /\ tokens[i].kind = "match"
        /\ tokens[i].match.Length = MAX_MATCH_LENGTH
        /\ tokens[i].match.Offset = tokens[i].position

(***************************************************************************)
(* Properties of Decompress on arbitrary sources (SpecFuzz).               *)
(***************************************************************************)
\* C2: memory safety.  On every source and destination Decompress returns one of the
\* four Results, and no read of source and no read or write of destination leaves the slice
MemorySafety ==
    /\ dec.result # PANICKED
    /\ dec.pc = "done" => dec.result \in {RESULT_OK, RESULT_ERROR_BUFFER_TOO_SMALL,
                                           RESULT_ERROR_CORRUPTED_DATA,
                                           RESULT_ERROR_UNSUPPORTED_VERSION}

\* the memory safety of a Decompressor whose tables initialize() has set
MemorySafetyInitialized ==
    (dec.pc = "done" /\ decompressor # ZeroDecompressor) =>
        dec.result \in {RESULT_OK, RESULT_ERROR_BUFFER_TOO_SMALL,
                        RESULT_ERROR_CORRUPTED_DATA, RESULT_ERROR_UNSUPPORTED_VERSION}

\* C8: out-of-range match rejection.  A match token whose offset is greater than the
\* output cursor, or that ends after outputTail = max(0, UncompressedSize - TAIL_LENGTH),
\* makes Decompress return CorruptedData at that token
MatchRejection ==
    (/\ dec.token.kind = "match"
     /\ \/ dec.token.match.Offset > dec.token.outputIterator
        \/ dec.token.outputIterator + dec.token.match.Length
              > max(0, dec.header.UncompressedSize - TAIL_LENGTH))
        => dec.pc = "done" /\ dec.result = RESULT_ERROR_CORRUPTED_DATA

\* the rejection by a Decompressor whose tables initialize() has set
MatchRejectionInitialized ==
    (/\ decompressor # ZeroDecompressor
     /\ dec.token.kind = "match"
     /\ \/ dec.token.match.Offset > dec.token.outputIterator
        \/ dec.token.outputIterator + dec.token.match.Length
              > max(0, dec.header.UncompressedSize - TAIL_LENGTH))
        => dec.pc = "done" /\ dec.result = RESULT_ERROR_CORRUPTED_DATA

\* C9: stored decode.  When Decompress returns OK on a source with the stored flag,
\* UncompressedSize bytes are present after the header and destination[0..UncompressedSize)
\* equals them
StoredDecode ==
    (dec.pc = "done" /\ dec.result = RESULT_OK /\ attributeStored(dsource)) =>
        /\ Len(dsource) >= dec.headerSize + dec.header.UncompressedSize
        /\ SubSeq(ddestination, 1, dec.header.UncompressedSize)
              = SubSeq(dsource, dec.headerSize + 1, dec.headerSize + dec.header.UncompressedSize)

\* C10: header length check.  GetCompressionInfo returns BufferTooSmall exactly when the
\* source holds fewer than headerSize = 1 + 2 * sizeCodedSize bytes, and Decompress
\* does not return BufferTooSmall for a header that is present whole
HeaderLengthCheck ==
    /\ (info.result # RUNNING /\ Len(dsource) >= 1) =>
          (info.result = RESULT_ERROR_BUFFER_TOO_SMALL
              <=> Len(dsource) < attributeHeaderSize(dsource))
    /\ (dec.pc = "done" /\ Len(dsource) >= 1 /\ Len(dsource) < attributeHeaderSize(dsource))
          => dec.result = RESULT_ERROR_BUFFER_TOO_SMALL

\* the size class the attribute byte at the head of a source announces
attributeSizeCodedSize(block) == ((At(block, 0) \div 8) % 8) + 1

UnsupportedVersion ==
    (/\ dec.pc = "done"
     /\ Len(dsource) >= 1
     /\ attributeSizeCodedSize(dsource) \in {1, 2, 4, 8}
     /\ Len(dsource) >= attributeHeaderSize(dsource)
     /\ At(dsource, 0) % 8 # VERSION)
        => /\ dec.result = RESULT_ERROR_UNSUPPORTED_VERSION
           /\ ddestination = Zeros(Len(ddestination))

\* the same for a source with at least one byte after the header
UnsupportedVersionWithBody ==
    (/\ dec.pc = "done"
     /\ Len(dsource) >= 1
     /\ attributeSizeCodedSize(dsource) \in {1, 2, 4, 8}
     /\ Len(dsource) > attributeHeaderSize(dsource)
     /\ At(dsource, 0) % 8 # VERSION)
        => /\ dec.result = RESULT_ERROR_UNSUPPORTED_VERSION
           /\ ddestination = Zeros(Len(ddestination))

\* the entry conditions of Compress fail: the source is empty or the destination is
\* shorter than |s| plus the largest header
entryRefused == Len(source) = 0 \/ Len(destination) < Len(source) + getHeaderSize(MaxInt)

\* C13: entry contract of Compress.  It returns BufferTooSmall when the source is empty
\* or the destination is shorter than GetMaxCompressedSize(|s|), and then nothing is
\* written to the destination, compressedSize is not set and the dictionary is not
\* touched; in every other case it ends with OK: every iteration of its loop moves the
\* dictionary position forward, and the loop ends when the position passes the source
EntryContract ==
    /\ [](comp.pc = "done" =>
            IF entryRefused
            THEN /\ comp.result = RESULT_ERROR_BUFFER_TOO_SMALL
                 /\ destination = Zeros(Len(destination))
                 /\ comp.compressedSize = Unset
                 /\ dict = NewDictionary
            ELSE comp.result = RESULT_OK)
    /\ [](comp.pc = "loop" => ~entryRefused /\ Position(dict) <= Len(source) + 1)
    /\ [][comp.pc = "loop" => comp'.pc = "done" \/ Position(dict') > Position(dict)]_vars

EntryContractWitness ==
    /\ comp.pc = "done"
    /\ comp.result = RESULT_ERROR_BUFFER_TOO_SMALL
    /\ Len(source) >= MixedLen - MixedSpread
    /\ Len(destination) = Len(source) + getHeaderSize(MaxInt) - 1

\* the smallest of 1, 2, 4 and 8 bytes that hold size
smallestSizeClass(size) ==
    IF wideFits(size, 1) THEN 1
    ELSE IF wideFits(size, 2) THEN 2
    ELSE IF wideFits(size, 4) THEN 4
    ELSE 8

\* C14: size-class selection.  The sizeCodedSize in the attribute byte of a written
\* header is the smallest of 1, 2, 4 and 8 bytes in which GetMaxCompressedSize(n) fits,
\* and the two size fields read back as UncompressedSize and CompressedSize
SizeClass ==
    sizing.pc = "written" =>
        /\ attributeSizeCodedSize(<<sizing.attributes>>) = smallestSizeClass(sizing.maxCompressedSize)
        /\ wideOfField(sizing.uncompressedField) = sizing.UncompressedSize
        /\ wideOfField(sizing.compressedField) = sizing.CompressedSize

\* the same for blocks whose GetMaxCompressedSize(n) is at most 2^32 - 1
SizeClassBelowEight ==
    (sizing.pc = "written" /\ wideFits(sizing.maxCompressedSize, 4)) =>
        /\ attributeSizeCodedSize(<<sizing.attributes>>) = smallestSizeClass(sizing.maxCompressedSize)
        /\ wideOfField(sizing.uncompressedField) = sizing.UncompressedSize
        /\ wideOfField(sizing.compressedField) = sizing.CompressedSize

\* the headers Compress writes into its destination agree with the 64-bit model
SizeClassWritten ==
    Compressed =>
        /\ attributeSizeCodedSize(Block) = getSizeCodedSizeWide(GetMaxCompressedSizeWide(wideOf(Len(source))))
        /\ SubSeq(Block, 2, 1 + attributeSizeCodedSize(Block))
               = wideField(wideOf(Len(source)), attributeSizeCodedSize(Block))
        /\ SubSeq(Block, 2 + attributeSizeCodedSize(Block), 1 + 2 * attributeSizeCodedSize(Block))
               = wideField(wideOf(Len(Block)), attributeSizeCodedSize(Block))

\* the relative position has reached REBASE_THRESHOLD at least once in the Compress call
rebased == dict.bufferBase > 0

\* C15: rebase invariance.  In a build with REBASE_THRESHOLD a small multiple of
\* DICTIONARY_SIZE, a Compress call in which the relative position reached the threshold
\* ends with OK and Decompress of its block returns OK with the original input
RebaseInvariance ==
    /\ (comp.pc = "done" /\ rebased) => comp.result = RESULT_OK
    /\ (dec.pc = "done" /\ rebased) =>
           /\ dec.result = RESULT_OK
           /\ ddestination = source

\* the same with the tables of the decompressor built before the call
RebaseInvarianceInitialized ==
    /\ (comp.pc = "done" /\ rebased) => comp.result = RESULT_OK
    /\ (dec.pc = "done" /\ rebased /\ decompressor # ZeroDecompressor) =>
           /\ dec.result = RESULT_OK
           /\ ddestination = source

\* a rebase leaves every emitted match a true match inside the window of the test build
RebaseMatchValidity ==
    \A i \in 1..Len(tokens) :
        tokens[i].kind = "match" =>
            /\ tokens[i].match.Offset >= 1
            /\ tokens[i].match.Offset < dict.dictionarySize
            /\ tokens[i].match.Offset <= tokens[i].position
            /\ \A k \in 0..(tokens[i].match.Length - 1) :
                   At(source, tokens[i].position + k)
                       = At(source, tokens[i].position - tokens[i].match.Offset + k)

\* blocks of rebased calls with several rebases and matches that reach back across one
RebaseReached ==
    /\ dec.pc = "done"
    /\ ~attributeStored(dsource)
    /\ decompressor # ZeroDecompressor
    /\ dec.result = RESULT_OK
    /\ ddestination = source
    /\ dict.bufferBase >= 2 * (dict.rebaseThreshold - dict.dictionarySize)
    /\ \E i \in 1..Len(tokens) :
          /\ tokens[i].kind = "match"
          /\ tokens[i].position >= dict.rebaseThreshold
          /\ tokens[i].position - tokens[i].match.Offset < dict.rebaseThreshold

\* a match token is among the tokens Compress has emitted
matchEmitted == \E i \in 1..Len(tokens) : tokens[i].kind = "match"

\* C16: scenario 1.  Compress of "abcabcabcabc" followed by Decompress yields the same
\* 12 bytes, and the body of the block is a token stream with at least one match token
Scenario1 ==
    source = Abc12 =>
        /\ Compressed => ~attributeStored(Block) /\ matchEmitted
        /\ dec.pc = "done" => dec.result = RESULT_OK /\ ddestination = source

\* C16 as the code has it: Compress of "abcabcabcabc" yields the 15-byte stored block, a
\* 3-byte header followed by the 12 bytes verbatim, no match is found on the way, and
\* Decompress of the block yields the same 12 bytes
Scenario1Stored ==
    source = Abc12 =>
        /\ ~matchEmitted
        /\ Compressed => Block = <<128 + VERSION, 12, 15>> \o Abc12
        /\ dec.pc = "done" => dec.result = RESULT_OK /\ ddestination = source

Scenario1StoredWitness ==
    /\ source = Abc12
    /\ Compressed
    /\ attributeStored(Block)
    /\ dec.pc = "done"
    /\ dsource = Block
    /\ ddestination = Abc12

\* what FindMatches returns at the current position of the dictionary
found == FindMatches(dict, TRUE)

\* maxMatchLength at the current position
currentMaxMatchLength == min(Len(dict.buffer) - TAIL_LENGTH - Position(dict), MAX_MATCH_LENGTH)

\* C17: FindMatches candidates.  At every position the list FindMatches returns has at
\* most MAX_MATCH_CANDIDATE_COUNT entries with strictly increasing lengths, and each
\* entry is a true match inside the window: 1 <= offset < DICTIONARY_SIZE, offset <= pos,
\* MIN_MATCH_LENGTH <= length <= maxMatchLength, and the length bytes at pos equal the
\* length bytes at pos - offset
Candidates ==
    (Len(dict.buffer) > 0 /\ ~dictionaryDone) =>
        LET matchCandidates == found.matchCandidates
        IN  /\ Len(matchCandidates) <= MAX_MATCH_CANDIDATE_COUNT
            /\ found.matchCount <= MAX_MATCH_CANDIDATE_COUNT
            /\ \A i \in 1..(Len(matchCandidates) - 1) :
                   matchCandidates[i].Length < matchCandidates[i + 1].Length
            /\ \A i \in 1..Len(matchCandidates) :
                   /\ 1 <= matchCandidates[i].Offset
                   /\ matchCandidates[i].Offset < dict.dictionarySize
                   /\ matchCandidates[i].Offset <= Position(dict)
                   /\ MIN_MATCH_LENGTH <= matchCandidates[i].Length
                   /\ matchCandidates[i].Length <= currentMaxMatchLength
                   /\ \A k \in 0..(matchCandidates[i].Length - 1) :
                          At(dict.buffer, Position(dict) + k)
                              = At(dict.buffer, Position(dict) - matchCandidates[i].Offset + k)

\* three candidates of growing length are found
CandidatesWitness ==
    /\ Len(dict.buffer) > 0
    /\ ~dictionaryDone
    /\ Len(found.matchCandidates) >= 3

\* two candidates are found after a rebase, in a window that has slid
CandidatesRebased ==
    /\ Len(dict.buffer) > 0
    /\ ~dictionaryDone
    /\ dict.bufferBase > 0
    /\ Len(found.matchCandidates) >= 2

\* the search stops at MAX_MATCH_CANDIDATE_COUNT visited nodes
CandidatesCapReached ==
    /\ Len(dict.buffer) > 0
    /\ found.matchCount = MAX_MATCH_CANDIDATE_COUNT
    /\ Len(found.matchCandidates) >= 1

\* the relative position FindMatches has processed last (positions from
\* matchableBufferLength on are only counted)
currentRelative == min(Position(dict), dict.matchableBufferLength) - 1 - dict.bufferBase

\* FindMatches has processed a position of the buffer
processed == Len(dict.buffer) > 0 /\ Position(dict) >= 1 /\ dict.matchableBufferLength >= 1

windowStart == max(0, currentRelative - dict.dictionarySize + 1)

inWindow(p) == windowStart <= p /\ p < currentRelative + 1

\* what the entries of hashTable hold, and what the entries of children hold (the slots
\* never written hold childrenFill)
hashTableEntries ==
    {dict.hashTable[h] : h \in DOMAIN dict.hashTable} \cup {INVALID_POSITION}

childrenEntries ==
    {dict.children[c] : c \in DOMAIN dict.children}
        \cup (IF Cardinality(DOMAIN dict.children) < 2 * dict.dictionarySize
              THEN {dict.childrenFill} ELSE {})

\* children[(p % DICTIONARY_SIZE) * 2 + side]
childOf(p, side) == Get(dict.children, dict.childrenFill, (p % dict.dictionarySize) * 2 + side)

\* the positions a search can reach from the given ones through positions in the window
RECURSIVE reachableFrom(_, _)
reachableFrom(frontier, seen) ==
    LET next == {q \in {childOf(p, side) : p \in frontier, side \in {0, 1}} : inWindow(q)} \ seen
    IN  IF next = {} THEN seen ELSE reachableFrom(next, seen \cup next)

treeRoots == {p \in hashTableEntries : inWindow(p)}

treeNodes == reachableFrom(treeRoots, treeRoots)

DictionaryRangeStale ==
    /\ processed
    /\ \E p \in hashTableEntries : p # INVALID_POSITION /\ p < windowStart
    /\ \E p \in childrenEntries : p # INVALID_POSITION /\ p < windowStart

\* the first byte from k on, below count, where the strings at p and q differ; count
\* when there is none
RECURSIVE firstDifference(_, _, _, _)
firstDifference(p, q, k, count) ==
    IF k >= count THEN count
    ELSE IF At(dict.buffer, dict.bufferBase + p + k) # At(dict.buffer, dict.bufferBase + q + k)
    THEN k
    ELSE firstDifference(p, q, k + 1, count)

\* the string at relative position p is lexicographically smaller than the one at q,
\* decided at the first byte where the two differ
stringLess(p, q) ==
    LET count == Len(dict.buffer) - dict.bufferBase - max(p, q)
        k == firstDifference(p, q, 0, count)
    IN  /\ k < count
        /\ At(dict.buffer, dict.bufferBase + p + k) < At(dict.buffer, dict.bufferBase + q + k)

\* the first count bytes at p are lexicographically smaller than or equal to those at q
prefixLessEq(p, q, count) ==
    LET k == firstDifference(p, q, 0, count)
    IN  \/ k >= count
        \/ At(dict.buffer, dict.bufferBase + p + k) < At(dict.buffer, dict.bufferBase + q + k)

\* the number of bytes FindMatches compares at most at relative position p
maxMatchLengthAt(p) ==
    min(Len(dict.buffer) - TAIL_LENGTH - (dict.bufferBase + p), MAX_MATCH_LENGTH)

\* the positions of the left (side 0) or right (side 1) subtree of p
subtree(p, side) ==
    IF inWindow(childOf(p, side))
    THEN reachableFrom({childOf(p, side)}, {childOf(p, side)})
    ELSE {}

\* position p, found in the subtree of the given side of node, is in order with it: on the
\* whole strings, or on the bytes FindMatches compares at the node
inOrder(p, node, side, whole) ==
    /\ p < node
    /\ IF whole
       THEN (IF side = 0 THEN stringLess(p, node) ELSE stringLess(node, p))
       ELSE (IF side = 0 THEN prefixLessEq(p, node, maxMatchLengthAt(node))
                          ELSE prefixLessEq(node, p, maxMatchLengthAt(node)))

\* p and every position below it are in order with every node above them; above holds
\* the nodes on the way from the root, each with the side taken
RECURSIVE orderedBelow(_, _, _)
orderedBelow(p, above, whole) ==
    /\ \A i \in 1..Len(above) : inOrder(p, above[i].node, above[i].side, whole)
    /\ \A side \in {0, 1} :
           inWindow(childOf(p, side)) =>
               /\ childOf(p, side) < p
               /\ orderedBelow(childOf(p, side), Append(above, [node |-> p, side |-> side]), whole)

\* C19: BST ordering invariant.  After every FindMatches/Skip, in each tree reachable
\* from a hashTable root through positions in the window, every string of the left
\* subtree of a node is lexicographically smaller and every string of its right subtree
\* greater than the string of the node, and every position below a node is lower than it
TreeOrder ==
    processed => \A root \in treeRoots : orderedBelow(root, <<>>, TRUE)

\* C19 as the code has it: the order holds on the bytes FindMatches compares at the node,
\* its first maxMatchLength = min(len(buffer) - TAIL_LENGTH - p, MAX_MATCH_LENGTH) bytes:
\* on them every string of the left subtree is smaller than or equal to the string of the
\* node and every string of the right subtree greater or equal, and every position below
\* a node is lower than it
TreeOrderCompared ==
    processed => \A root \in treeRoots : orderedBelow(root, <<>>, FALSE)

\* a node with both subtrees, one of them of two positions or more
TreeOrderComparedWitness ==
    /\ processed
    /\ \E p \in treeNodes :
          /\ subtree(p, 0) # {}
          /\ Cardinality(subtree(p, 1)) >= 2

\* a node that has taken over the subtree of a string equal to it on all compared bytes,
\* with a string in it that compares the other way further on
TreeOrderInherited ==
    /\ processed
    /\ \E p \in treeNodes : \E r \in subtree(p, 0) : stringLess(p, r)

\* bit i of a word of the block
bitOf(word, i) == (word[(i \div 8) + 1] \div (2 ^ (i % 8))) % 2

\* the bytes of a token in the output: the literal, or the code of the match
tokenBytes(token) ==
    IF token.kind = "match"
    THEN SubSeq(encodeMatch(token.match).word, 1, encodeMatch(token.match).size)
    ELSE <<At(source, token.position)>>

\* the tokens first .. last of the history are in the block from offset on, one after the
\* other; yields the offset after them, or -1
RECURSIVE tokensAt(_, _, _)
tokensAt(first, last, offset) ==
    IF first > last THEN offset
    ELSE IF SubSeq(Block, offset + 1, offset + Len(tokenBytes(tokens[first])))
                # tokenBytes(tokens[first])
    THEN -1
    ELSE tokensAt(first + 1, last, offset + Len(tokenBytes(tokens[first])))

\* from offset on the block holds a control word with the guard bit, then the up to 31
\* tokens it describes, from tokens[first] on, its bit i telling whether the i-th is a
\* match, and so on up to the trailing dummy at the end of the block
RECURSIVE controlWordsFrom(_, _)
controlWordsFrom(first, offset) ==
    LET count == min(31, Len(tokens) - first + 1)
        word == SubSeq(Block, offset + 1, offset + WORD_SIZE)
        after == tokensAt(first, first + count - 1, offset + WORD_SIZE)
    IN  /\ count >= 1
        /\ offset + WORD_SIZE <= Len(Block)
        /\ bitOf(word, 31) = 1
        /\ \A i \in 0..30 :
               bitOf(word, i) = 1 <=> (i < count /\ tokens[first + i].kind = "match")
        /\ after # -1
        /\ IF first + count > Len(tokens)
           THEN after + TRAILING_DUMMY_SIZE = Len(Block)
           ELSE controlWordsFrom(first + count, after)

\* C20: control-word protocol.  In every non-stored block Compress produces the body
\* starts with a control word, every control word has bit 31 set, is followed by exactly
\* 31 tokens, the last one by 1 to 31, has bit i set exactly when its i-th token is a
\* match, and stands in the output before the first token it describes
ControlWords ==
    (Compressed /\ ~attributeStored(Block)) =>
        controlWordsFrom(1, attributeHeaderSize(Block))

\* a block with two control words, the second with a match among its tokens
ControlWordsWitness ==
    /\ Compressed
    /\ ~attributeStored(Block)
    /\ Len(tokens) > 31
    /\ \E i \in 32..Len(tokens) : tokens[i].kind = "match"

\* a block whose only control word describes exactly 31 tokens, matches among them
ControlWordsFull ==
    /\ Compressed
    /\ ~attributeStored(Block)
    /\ Len(tokens) = 31
    /\ \E i \in 1..31 : tokens[i].kind = "match"

(***************************************************************************)
(* The tail of the input.                                                  *)
(***************************************************************************)
\* the decoder's outputTail for a block of the whole source (decompressor.go lines 80-83)
sourceTail == IF Len(source) > TAIL_LENGTH THEN Len(source) - TAIL_LENGTH ELSE 0

\* the input positions the tokens emitted so far cover
literalPositions == {tokens[i].position : i \in {j \in DOMAIN tokens : tokens[j].kind = "literal"}}

\* C21: tail handling.  Every match Compress emits starts before
\* |s| - (TAIL_LENGTH + MIN_MATCH_LENGTH) and ends at or before |s| - TAIL_LENGTH; once the
\* loop has passed the whole input, each of the last TAIL_LENGTH positions was emitted as
\* a literal; an input of at most TAIL_LENGTH + MIN_MATCH_LENGTH bytes gives no match; and
\* no emitted match is out of range for the decoder at the output position where it starts
TailHandling ==
    /\ \A i \in DOMAIN tokens :
          tokens[i].kind = "match" =>
              /\ tokens[i].position < Len(source) - (TAIL_LENGTH + MIN_MATCH_LENGTH)
              /\ tokens[i].position + tokens[i].match.Length <= Len(source) - TAIL_LENGTH
              /\ ~matchOutOfRange(tokens[i].position, tokens[i].match, sourceTail)
    /\ (comp.pc = "done" /\ comp.result = RESULT_OK /\ ~comp.isStored) =>
          \A p \in max(0, Len(source) - TAIL_LENGTH)..(Len(source) - 1) : p \in literalPositions
    /\ Len(source) <= TAIL_LENGTH + MIN_MATCH_LENGTH =>
          \A i \in DOMAIN tokens : tokens[i].kind = "literal"
    /\ (dec.token.kind = "match" /\ dec.result # PANICKED) =>
          ~matchOutOfRange(dec.token.outputIterator, dec.token.match, dec.outputTail)

\* a block whose last match ends exactly where the tail starts, decoded to the end
TailHandlingWitness ==
    /\ \E i \in DOMAIN tokens :
          /\ tokens[i].kind = "match"
          /\ tokens[i].position + tokens[i].match.Length = Len(source) - TAIL_LENGTH
          /\ tokens[i].position = Len(source) - (TAIL_LENGTH + MIN_MATCH_LENGTH) - 1
    /\ ~comp.isStored
    /\ dec.pc = "done"
    /\ dec.result = RESULT_OK
    /\ dec.outputIterator = Len(source)

(***************************************************************************)
(* The match codec on its own: encodeMatch writes a match of the data      *)
(* model at the head of destination, the caller hands the coded bytes with *)
(* other bytes after them to the decompressor, and decodeMatch reads them. *)
(***************************************************************************)
\* how far around each threshold of the encodings the lengths and offsets are taken
MaxCodecSpread == 2

\* the thresholds of encodeMatch (part_000 lines 231-240) and the ends of the data model
CodecLengthEdges == {MIN_MATCH_LENGTH, MIN_MATCH_LENGTH + 16, MIN_MATCH_LENGTH + 32, MAX_MATCH_LENGTH}
CodecOffsetEdges == {1, 64, 1024, 16384, 65536, DICTIONARY_SIZE}

CodecLengths ==
    {e + k : e \in CodecLengthEdges, k \in (0 - MaxCodecSpread)..MaxCodecSpread}
        \cap MIN_MATCH_LENGTH..MAX_MATCH_LENGTH

CodecOffsets ==
    {e + k : e \in CodecOffsetEdges, k \in (0 - MaxCodecSpread)..MaxCodecSpread}
        \cap 1..DICTIONARY_SIZE

\* the matches of the data model that are encoded
CodecMatches == {[Length |-> l, Offset |-> o] : l \in CodecLengths, o \in CodecOffsets}

\* the bytes that follow the coded match in the input of the decoder
CodecFollow == {<<0, 0, 0, 0>>, <<255, 255, 255, 255>>, <<7, 1, 128, 64>>}

InitCodec ==
    /\ source = <<>>
    /\ destination = Zeros(2 * WORD_SIZE)
    /\ \E m \in CodecMatches : comp = [CompressorIdle EXCEPT !.match = m]
    /\ dict = NewDictionary
    /\ tokens = <<>>
    /\ dsource = <<>>
    /\ ddestination = <<>>
    /\ dec = DecompressorIdle
    /\ decompressor = ZeroDecompressor
    /\ info = NoInfo
    /\ sizing = NoSizing

\* outputIterator += c.encodeMatch(match, outputBuffer[outputIterator:]) at the head of
\* destination (part_000 lines 145, 224-253)
EncodeMatch ==
    /\ comp.pc = "idle"
    /\ \E code \in {encodeMatch(comp.match)} :
          /\ destination' = FastWrite(destination, 0, code.word, code.size)
          /\ comp' = [comp EXCEPT !.pc = "encoded", !.outputIterator = code.size]
    /\ UNCHANGED <<source, dict, tokens, dsource, ddestination, dec, decompressor, info, sizing>>

\* the caller passes the coded bytes on, followed by other bytes
SupplyCode ==
    /\ comp.pc = "encoded"
    /\ dec.pc = "idle"
    /\ \E follow \in CodecFollow :
          dsource' = SubSeq(destination, 1, comp.outputIterator) \o follow
    /\ dec' = [dec EXCEPT !.pc = "ready"]
    /\ UNCHANGED <<source, destination, comp, dict, tokens, ddestination, decompressor, info, sizing>>

\* match, matchSize := d.decodeMatch(inputBuffer[inputIterator:]); inputIterator += matchSize
\* (decompressor.go lines 156-157, 222-235)
DecodeMatch ==
    /\ dec.pc = "ready"
    /\ IF ~(At(dsource, 0) % 8 < Len(decompressor.lut))
       THEN dec' = [dec EXCEPT !.pc = "done", !.result = PANICKED]
       ELSE \E decoded \in {decodeMatch(decompressor.lut, dsource, 0)} :
               dec' = [dec EXCEPT !.pc = "done", !.result = RESULT_OK,
                                  !.inputIterator = decoded.size,
                                  !.token = [kind |-> "match", match |-> decoded.match,
                                             outputIterator |-> 0]]
    /\ UNCHANGED <<source, destination, comp, dict, tokens, dsource, ddestination, decompressor,
                   info, sizing>>

NextCodec ==
    \/ EncodeMatch
    \/ SupplyCode
    \/ initialize
    \/ DecodeMatch

SpecCodec == InitCodec /\ [][NextCodec]_vars

\* whether a row of the tag table has room for the match: its length code under the
\* length mask, its offset in the bits the mask leaves above the offset shift
encodingFits(m, entry) ==
    /\ m.Length - MIN_MATCH_LENGTH <= entry.lengthMask
    /\ m.Offset < 2 ^ (8 * entry.maskBytes - entry.offsetShift)

\* the sizes of the encodings that have room for the match
fittingSizes(m) == {lut[i].size : i \in {j \in DOMAIN lut : encodingFits(m, lut[j])}}

\* the encoder has written the smallest encoding that fits
smallestEncoding ==
    /\ fittingSizes(comp.match) # {}
    /\ comp.outputIterator \in fittingSizes(comp.match)
    /\ \A size \in fittingSizes(comp.match) : comp.outputIterator <= size

\* the decoder has returned the encoded match and its size
decodedSame ==
    /\ dec.result = RESULT_OK
    /\ dec.token.match = comp.match
    /\ dec.inputIterator = comp.outputIterator

\* C22: match codec round trip.  For every match of the data model encodeMatch writes
\* the smallest of the five encodings that fits, and decodeMatch on those bytes,
\* whatever follows them, returns the same Length and Offset and the encoded size
MatchCodec ==
    /\ comp.pc = "encoded" => smallestEncoding
    /\ dec.pc = "done" => decodedSame

\* the round trip of the matches an encoding has room for (offsets below
\* DICTIONARY_SIZE), on a Decompressor whose tables are set
MatchCodecInitialized ==
    /\ (comp.pc = "encoded" /\ comp.match.Offset < DICTIONARY_SIZE) => smallestEncoding
    /\ (dec.pc = "done" /\ comp.match.Offset < DICTIONARY_SIZE
        /\ decompressor # ZeroDecompressor) => decodedSame

\* the longest match at the largest offset an encoding holds has made the round trip
MatchCodecReached ==
    /\ dec.pc = "done"
    /\ decompressor # ZeroDecompressor
    /\ comp.match = [Length |-> MAX_MATCH_LENGTH, Offset |-> DICTIONARY_SIZE - 1]
    /\ decodedSame

\* a match at offset DICTIONARY_SIZE comes back with offset 0, tables set or not
MatchCodecOverflow ==
    (dec.pc = "done" /\ decompressor # ZeroDecompressor /\ comp.match.Offset = DICTIONARY_SIZE)
        => dec.token.match.Offset = 0

(***************************************************************************)
(* Decompress into a destination that already holds data.  What the        *)
(* destination held before the call is kept apart from every byte value:   *)
(* Decompress never computes with a byte of destination, it only copies    *)
(* it, so a byte of the output that is Unwritten is one the call has taken *)
(* over from the earlier contents.                                         *)
(***************************************************************************)
\* a byte of destination from before the call
Unwritten == -1

Prior(n) == [i \in 1..n |-> Unwritten]

PriorDestinations(src, original) ==
    LET declared == decodeHeader(src).header.UncompressedSize
    IN  {Prior(n) : n \in {declared - 1, declared, original} \cap 0..MaxDestination}

\* the most literals before the match of a forged block
MaxForgedLiterals == 3

\* a non-stored block no compressor made: literals, then one match of MIN_MATCH_LENGTH
\* bytes coded in one byte, then TAIL_LENGTH literals and the trailing dummy
ForgedBlock(literals, offset) ==
    LET body == WordOfInt(2 ^ literals) \o [i \in 1..literals |-> 96 + i] \o <<offset * 4>>
                \o [i \in 1..TAIL_LENGTH |-> 112 + i] \o Zeros(TRAILING_DUMMY_SIZE)
    IN  <<0, literals + MIN_MATCH_LENGTH + TAIL_LENGTH, 3 + Len(body)>> \o body

ForgedBlocks ==
    {ForgedBlock(literals, offset) : literals \in 0..MaxForgedLiterals,
                                     offset \in 0..(MaxForgedLiterals + 1)}

\* the caller decompresses a damaged copy of the block into a used buffer
SupplyDamaged ==
    /\ dec.pc = "idle"
    /\ Compressed
    /\ \E src \in Adversarial(Block) :
          \E dst \in PriorDestinations(src, Len(source)) : Supply(src, dst)

\* the caller decompresses bytes that no compressor produced into a used buffer
SupplyForged ==
    /\ dec.pc = "idle"
    /\ comp.pc = "done"
    /\ comp.result # RESULT_OK
    /\ \E src \in CraftedSources \cup ForgedBlocks :
          \E dst \in PriorDestinations(src, Len(src)) : Supply(src, dst)

NextPrior ==
    \/ CompressStart
    \/ CompressStore
    \/ CompressIterate
    \/ CompressFinish
    \/ SupplyDamaged
    \/ SupplyForged
    \/ initialize
    \/ CallGetCompressionInfo
    \/ DecompressStart
    \/ DecompressStep
    \/ DecompressTail

SpecPrior == InitFuzz /\ [][NextPrior]_vars

\* the first UncompressedSize bytes of destination after the call
decodedOutput == SubSeq(ddestination, 1, dec.header.UncompressedSize)

\* the loop has just copied a match
matchAccepted == dec.pc = "loop" /\ dec.token.kind = "match"

\* C23: Decompress determinism.  When Decompress returns OK, none of the first
\* UncompressedSize bytes of destination is a byte the destination held before the call
\* (the output is then the same whatever it held), and every match the loop accepts has
\* an offset of at least 1
Determinism ==
    /\ (dec.pc = "done" /\ dec.result = RESULT_OK) =>
          \A i \in DOMAIN decodedOutput : decodedOutput[i] # Unwritten
    /\ matchAccepted => dec.token.match.Offset >= 1

\* the block Compress made, unchanged, decodes to the input whatever the destination held
DeterminismOfBlocks ==
    (dec.pc = "done" /\ dec.result = RESULT_OK /\ dsource = Block /\ Len(Block) > 0) =>
        decodedOutput = source

\* Decompress has returned OK on a non-stored block whose first token is a match of
\* offset 0, and the output starts with bytes from before the call
DeterminismZeroOffset ==
    /\ dec.pc = "done"
    /\ dec.result = RESULT_OK
    /\ dsource = ForgedBlock(0, 0)
    /\ SubSeq(decodedOutput, 1, MIN_MATCH_LENGTH) = Prior(MIN_MATCH_LENGTH)

\* Decompress has returned OK on a stored block that is shorter than its size fields
\* say, on a Decompressor as declared, and the output ends with bytes from before the call
DeterminismShortStored ==
    /\ dec.pc = "done"
    /\ dec.result = RESULT_OK
    /\ decompressor = ZeroDecompressor
    /\ dec.header.IsStored
    /\ Len(decodedOutput) > 0
    /\ decodedOutput[Len(decodedOutput)] = Unwritten

(***************************************************************************)
(* A Decompress call that has started keeps running: the function has no   *)
(* suspension point, so each of its steps is taken when it can be.         *)
(***************************************************************************)
SpecTermination ==
    /\ SpecPrior
    /\ WF_vars(DecompressStart)
    /\ WF_vars(DecompressStep)
    /\ WF_vars(DecompressTail)

\* Decompress has been called and has not ended
decompressing == (dec.pc = "ready" /\ info.result # RUNNING) \/ dec.pc \in {"loop", "tail"}

\* C24: Decompress termination.  Every call of Decompress ends; an iteration of the
\* decoding loop that does not end the call moves the input cursor forward, by at least
\* one byte and at most a control word and a token of four bytes, and so does every
\* literal of the tail loop, with or without a guard bit in the control word; and after
\* OK on a non-stored block the output cursor is UncompressedSize
Termination ==
    /\ decompressing ~> dec.pc = "done"
    /\ [][(dec.pc = "loop" /\ dec'.pc = "loop") =>
             dec'.inputIterator - dec.inputIterator \in 1..(2 * WORD_SIZE)]_vars
    /\ [][(dec.pc = "tail" /\ dec'.pc = "tail") =>
             /\ dec'.inputIterator - dec.inputIterator \in 1..(WORD_SIZE + 1)
             /\ dec'.outputIterator = dec.outputIterator + 1]_vars
    /\ []((dec.pc = "done" /\ dec.result = RESULT_OK /\ ~dec.header.IsStored) =>
             dec.outputIterator = dec.header.UncompressedSize)

\* a call on a block whose control word has no guard bit has run through literals and a
\* match, has used up the bits of the control word, and has ended with OK
TerminationWitness ==
    /\ dec.pc = "done"
    /\ dec.result = RESULT_OK
    /\ ~dec.header.IsStored
    /\ dsource \in ForgedBlocks
    /\ dec.controlWord = <<0, 0, 0, 0>>
    /\ dec.outputIterator = dec.header.UncompressedSize
    /\ dec.inputIterator > dec.headerSize + WORD_SIZE + TAIL_LENGTH

(***************************************************************************)
(* A Compressor that is used again.  Compress reaches the Compressor only  *)
(* through c.dict (part_000 lines 64, 91, 98, 124, 149, 152), so a call on *)
(* an other input is taken by what it leaves in the dictionary: SetBuffer  *)
(* on the other input, then Skip or FindMatches at each position the call  *)
(* came to (all of them, or part of them when the call ended early in      *)
(* store).  The caller keeps the block the new Compressor made of the      *)
(* source, and calls Compress on the source again after any number of      *)
(* calls on other inputs.                                                  *)
(***************************************************************************)
\* the other inputs: they share their letters, and so their hash values, with the
\* sources, and one of them is longer than most sources
OtherBuffers == {Mixed(0, MixedLen), Periodic(<<99, 98, 97>>, LongLen)}

\* a call on an other input and the number of positions its loop came to
OtherCalls ==
    UNION {{[buffer |-> b, count |-> n] : n \in {Len(b) \div 2, Len(b) + 1}} : b \in OtherBuffers}

\* c.dict after the call: dict.SetBuffer, then dict.Skip or dict.FindMatches count times
afterCall(d, call) == skipTimes(SetBuffer(d, call.buffer), call.count)

\* the sources of the calls that are compared
ReuseSources ==
    {Mixed(seed, MixedLen) : seed \in 0..MaxSeed}
        \cup {Abc12, Periodic(<<97>>, MaxLen), Periodic(<<98, 97, 99>>, MaxLen),
              Periodic(LongWord, LongLen)}

InitReuse == InitWith(ReuseSources)

\* once the caller has kept the block of the new Compressor: Compress on an other input,
\* after which the caller has the destination for its next call on the source
CompressOther ==
    /\ dec.pc = "ready"
    /\ comp.pc \in {"idle", "done"}
    /\ \E call \in OtherCalls : dict' = afterCall(dict, call)
    /\ destination' = Zeros(Len(destination))
    /\ comp' = CompressorIdle
    /\ tokens' = <<>>
    /\ UNCHANGED <<source, dsource, ddestination, dec, decompressor, info, sizing>>

NextReuse ==
    \/ CompressStart
    \/ CompressStore
    \/ CompressIterate
    \/ CompressFinish
    \/ SupplyBlock
    \/ CompressOther

SpecReuse == InitReuse /\ [][NextReuse]_vars

\* the block of the new Compressor has been kept: a call that runs now is a later one
reused == dec.pc = "ready"

\* c.dict of a new Compressor at the same position of the same source
freshDictionary == skipTimes(SetBuffer(NewDictionary, source), Position(dict))

\* C25: Compress(s) on a Compressor that has compressed other inputs returns the Result,
\* the compressedSize and the block bytes that Compress(s) on a new Compressor returned,
\* and at every position of the call FindMatches gives the candidates it gives on the
\* dictionary of a new Compressor: none comes from entries an earlier buffer left
Reuse ==
    /\ (reused /\ comp.pc = "done") =>
          /\ comp.result = RESULT_OK
          /\ comp.compressedSize = Len(dsource)
          /\ Block = dsource
    /\ (reused /\ comp.pc = "loop") =>
          \A fresh \in {freshDictionary} :
              /\ dict.hashTable = fresh.hashTable
              /\ FindMatches(dict, TRUE).matchCandidates =
                     FindMatches(fresh, TRUE).matchCandidates

\* the second call has ended with a block that holds a match, on a dictionary whose
\* children still hold entries of a longer buffer of an earlier call
ReuseWitness ==
    /\ reused
    /\ Compressed
    /\ ~comp.isStored
    /\ \E i \in 1..Len(tokens) : tokens[i].kind = "match"
    /\ \E i \in DOMAIN dict.children : i >= 2 * Len(source)

(***************************************************************************)
(* getBestMatch on its own: candidate lists in ascending length, as        *)
(* FindMatches fills them (part_001 lines 53, 108, 135-144), with offsets  *)
(* on both sides of the thresholds where the coded size of a short match   *)
(* reaches its length.                                                     *)
(***************************************************************************)
\* the longest candidate list, and how far above MIN_MATCH_LENGTH the lengths go
MaxCandidates == 3
MaxCandidateSpread == 3

\* a match of 3 bytes is coded in 3 bytes from offset 16384 on, and a match of 3 or 4
\* bytes in 4 bytes from offset 65536 on (part_000 lines 231-246)
CandidateMatches ==
    {[Length |-> l, Offset |-> o] :
        l \in MIN_MATCH_LENGTH..(MIN_MATCH_LENGTH + MaxCandidateSpread),
        o \in {1, 16383, 16384, 65535, 65536}}

CandidateLists ==
    {list \in UNION {[1..n -> CandidateMatches] : n \in 0..MaxCandidates} :
        \A i \in 1..(Len(list) - 1) : list[i].Length < list[i + 1].Length}

\* Compress with matchCandidates[:matchCandidateCount] as FindMatches has filled it
InitBest ==
    /\ source = <<>>
    /\ destination = <<>>
    /\ \E list \in CandidateLists :
          comp = [matchCandidates |-> list] @@ CompressorIdle
    /\ dict = NewDictionary
    /\ tokens = <<>>
    /\ dsource = <<>>
    /\ ddestination = <<>>
    /\ dec = DecompressorIdle
    /\ decompressor = ZeroDecompressor
    /\ info = NoInfo
    /\ sizing = NoSizing

\* nextMatch = c.getBestMatch(matchCandidates[:matchCandidateCount]) (part_000 lines 125, 153)
GetBestMatch ==
    /\ comp.pc = "idle"
    /\ comp' = [comp EXCEPT !.pc = "chosen", !.nextMatch = getBestMatch(comp.matchCandidates)]
    /\ UNCHANGED <<source, destination, dict, tokens, dsource, ddestination, dec, decompressor,
                   info, sizing>>

SpecBest == InitBest /\ [][GetBestMatch]_vars

\* the places of the candidates whose length is greater than their coded size
profitable ==
    {i \in 1..Len(comp.matchCandidates) :
        comp.matchCandidates[i].Length > getMatchCodedSize(comp.matchCandidates[i])}

BestMatchNone ==
    /\ comp.pc = "chosen"
    /\ Len(comp.matchCandidates) > 1
    /\ comp.nextMatch = NoMatch

====
